---- MODULE Spec2Model ----
(***************************************************************************)
(* Model of the Unikraft KVM EFI stub (firmware-to-kernel handoff).        *)
(* The handoff is a single sequential program: pc is its position, calls   *)
(* is the history of calls it made to the firmware and to its              *)
(* collaborators, and the firmware's answers are drawn with \E at each     *)
(* call.                                                                   *)
(***************************************************************************)
EXTENDS Integers, Sequences, FiniteSets, TLC

(***************************************************************************)
(* Program constants                                                       *)
(***************************************************************************)
PAGE_SIZE == 4096
UK_EFI_SURPLUS_MEM_DESC_COUNT == 10
UK_EFI_MAXPATHLEN == 4096

(***************************************************************************)
(* Bounds of the model                                                     *)
(***************************************************************************)
\* Addresses are AddrBits wide (the code's are 64 bit wide); arithmetic on
\* them wraps around modulo 2^AddrBits.
AddrBits == 16
\* The firmware memory map holds 1..MaxMapDescs descriptors.
MaxMapDescs == 2
\* The memory attribute table holds 0..MaxMatEntries entries.
MaxMatEntries == 1
\* The descriptor stride the firmware reports (sizeof(struct uk_efi_mem_desc)
\* or more).
FwDescSize == 48
\* uk_efi_rt_md_to_bi_mrds on its own: tables of 0..MaxOvEntries entries.
MaxOvEntries == 2
\* The conversions on their own: load options of 0..MaxCmdlChars UTF-16
\* units and a terminator.
MaxCmdlChars == 3
\* ascii_to_utf16 on its own: strings of 0..MaxPathChars characters and a
\* max_len16 of 0..MaxLen16.
MaxPathChars == 3
MaxLen16 == 7

AddrSpace == 2 ^ AddrBits
\* __SZ_MAX, the largest __sz value (scaled to the model's integers).
SZ_MAX == 2147483647

DIV_ROUND_UP(n, d) == (n + d - 1) \div d
MAX(a, b) == IF a > b THEN a ELSE b
Wrap(a) == a % AddrSpace

(***************************************************************************)
(* Firmware status codes and memory types                                  *)
(***************************************************************************)
UK_EFI_SUCCESS == "SUCCESS"
UK_EFI_BUFFER_TOO_SMALL == "BUFFER_TOO_SMALL"
UK_EFI_NOT_FOUND == "NOT_FOUND"
UK_EFI_UNSUPPORTED == "UNSUPPORTED"
\* Some status that no call site accepts.
UK_EFI_DEVICE_ERROR == "DEVICE_ERROR"

\* The memory types the translator names, and two values it does not name.
EfiNamedTypes ==
    { "RESERVED_MEMORY_TYPE", "LOADER_CODE", "LOADER_DATA",
      "BOOT_SERVICES_CODE", "BOOT_SERVICES_DATA",
      "RUNTIME_SERVICES_CODE", "RUNTIME_SERVICES_DATA",
      "CONVENTIONAL_MEMORY", "UNUSABLE_MEMORY", "ACPI_RECLAIM_MEMORY",
      "ACPI_MEMORY_NVS", "MEMORY_MAPPED_IO", "MEMORY_MAPPED_IO_PORT_SPACE",
      "PAL_CODE", "PERSISTENT_MEMORY" }
EfiOtherTypes == { "UNACCEPTED_MEMORY_TYPE", "OEM_0x80000000" }
EfiTypes == EfiNamedTypes \cup EfiOtherTypes

\* struct ukplat_memregion_desc mrd = {0}
ZeroMrd == [pbase |-> 0, vbase |-> 0, len |-> 0, type |-> "NONE", flags |-> {}]

(***************************************************************************)
(* uk_efi_md_to_bi_mrd: one firmware descriptor to one memory region.      *)
(* The result is [rc, mrd]: rc is "OK" (0) or the errno returned negated,  *)
(* mrd is the output region as the call leaves it.                         *)
(***************************************************************************)
\* The type and flags the switch assigns, or the errno it returns
\* (MdClass), and two variants of it.
\* MdClass with the default case taken for a reserved type.
MdClass_default_m(type, mat_present) ==
    CASE type \in { "RESERVED_MEMORY_TYPE", "ACPI_RECLAIM_MEMORY",
                    "UNUSABLE_MEMORY", "ACPI_MEMORY_NVS", "PAL_CODE",
                    "PERSISTENT_MEMORY" } ->
           [rc |-> "OK", type |-> "RESERVED", flags |-> {"READ", "MAP"}]
      [] type \in { "MEMORY_MAPPED_IO", "MEMORY_MAPPED_IO_PORT_SPACE" } ->
           [rc |-> "OK", type |-> "RESERVED", flags |-> {"READ", "WRITE", "MAP"}]
      [] type \in { "RUNTIME_SERVICES_CODE", "RUNTIME_SERVICES_DATA" } ->
           IF mat_present # 0
           THEN [rc |-> "EEXIST", type |-> "NONE", flags |-> {}]
           ELSE [rc |-> "OK", type |-> "RESERVED",
                 flags |-> {"READ", "WRITE", "MAP"}]
      [] type \in { "LOADER_CODE", "LOADER_DATA" } ->
           [rc |-> "EEXIST", type |-> "NONE", flags |-> {}]
      [] type \in { "BOOT_SERVICES_CODE", "BOOT_SERVICES_DATA",
                    "CONVENTIONAL_MEMORY" } ->
           [rc |-> "OK", type |-> "FREE", flags |-> {"READ", "WRITE"}]
      [] OTHER ->
           [rc |-> "OK", type |-> "RESERVED", flags |-> {"READ", "MAP"}]

\* MdClass without the test of uk_efi_mat_present.
MdClass_rt_m(type, mat_present) ==
    CASE type \in { "RESERVED_MEMORY_TYPE", "ACPI_RECLAIM_MEMORY",
                    "UNUSABLE_MEMORY", "ACPI_MEMORY_NVS", "PAL_CODE",
                    "PERSISTENT_MEMORY" } ->
           [rc |-> "OK", type |-> "RESERVED", flags |-> {"READ", "MAP"}]
      [] type \in { "MEMORY_MAPPED_IO", "MEMORY_MAPPED_IO_PORT_SPACE" } ->
           [rc |-> "OK", type |-> "RESERVED", flags |-> {"READ", "WRITE", "MAP"}]
      [] type \in { "RUNTIME_SERVICES_CODE", "RUNTIME_SERVICES_DATA" } ->
           [rc |-> "OK", type |-> "RESERVED", flags |-> {"READ", "WRITE", "MAP"}]
      [] type \in { "LOADER_CODE", "LOADER_DATA" } ->
           [rc |-> "EEXIST", type |-> "NONE", flags |-> {}]
      [] type \in { "BOOT_SERVICES_CODE", "BOOT_SERVICES_DATA",
                    "CONVENTIONAL_MEMORY" } ->
           [rc |-> "OK", type |-> "FREE", flags |-> {"READ", "WRITE"}]
      [] OTHER ->
           [rc |-> "EINVAL", type |-> "NONE", flags |-> {}]

\* Lines 147-204.
MdClass(type, mat_present) ==
    CASE type \in { "RESERVED_MEMORY_TYPE", "ACPI_RECLAIM_MEMORY",
                    "UNUSABLE_MEMORY", "ACPI_MEMORY_NVS", "PAL_CODE",
                    "PERSISTENT_MEMORY" } ->
           [rc |-> "OK", type |-> "RESERVED", flags |-> {"READ", "MAP"}]
      [] type \in { "MEMORY_MAPPED_IO", "MEMORY_MAPPED_IO_PORT_SPACE" } ->
           [rc |-> "OK", type |-> "RESERVED", flags |-> {"READ", "WRITE", "MAP"}]
      [] type \in { "RUNTIME_SERVICES_CODE", "RUNTIME_SERVICES_DATA" } ->
           IF mat_present # 0
           THEN [rc |-> "EEXIST", type |-> "NONE", flags |-> {}]
           ELSE [rc |-> "OK", type |-> "RESERVED",
                 flags |-> {"READ", "WRITE", "MAP"}]
      [] type \in { "LOADER_CODE", "LOADER_DATA" } ->
           [rc |-> "EEXIST", type |-> "NONE", flags |-> {}]
      [] type \in { "BOOT_SERVICES_CODE", "BOOT_SERVICES_DATA",
                    "CONVENTIONAL_MEMORY" } ->
           [rc |-> "OK", type |-> "FREE", flags |-> {"READ", "WRITE"}]
      [] OTHER ->
           [rc |-> "EINVAL", type |-> "NONE", flags |-> {}]

\* start = MAX(md->physical_start, __PAGE_SIZE)
MdStart_m(md) == md.physical_start
MdStart(md) == MAX(md.physical_start, PAGE_SIZE)
\* end = md->physical_start + md->number_of_pages * UK_EFI_PAGE_SIZE
MdEnd(md) == Wrap(md.physical_start + md.number_of_pages * PAGE_SIZE)
\* end <= start || end - start < __PAGE_SIZE
MdRangeBad(md) ==
    MdEnd(md) <= MdStart(md) \/ MdEnd(md) - MdStart(md) < PAGE_SIZE

uk_efi_md_to_bi_mrd(md, mrd, mat_present) ==
    LET c == MdClass(md.type, mat_present) IN
    IF c.rc # "OK"
    THEN [rc |-> c.rc, mrd |-> mrd]
    ELSE LET typed == [mrd EXCEPT !.type = c.type, !.flags = c.flags] IN
         IF MdRangeBad(md)
         THEN [rc |-> "ENOMEM", mrd |-> typed]
         ELSE [rc |-> "OK",
               mrd |-> [typed EXCEPT !.pbase = MdStart(md),
                                     !.vbase = MdStart(md),
                                     !.len = MdEnd(md) - MdStart(md)]]

(***************************************************************************)
(* uk_efi_rt_md_to_bi_mrds, lines 333-355: the conversion loop over the    *)
(* memory attribute table.  A table is [descriptor_size,                   *)
(* number_of_entries, entry]; mat_md is a byte offset from mat->entry.     *)
(***************************************************************************)
\* A slot of the rt_mrds array the loop never wrote (allocate_pool does not
\* clear memory).
UninitMrd == [pbase |-> 0, vbase |-> 0, len |-> 0, type |-> "UNINIT", flags |-> {}]

\* The descriptor mat_md points at.
MatMdAt(mat, off) == mat.entry[(off \div mat.descriptor_size) + 1]

\* Lines 343-352: the flags of a runtime entry.
RtFlags_m(attribute) ==
    {"MAP"} \cup
    (IF "XP" \in attribute
     THEN (IF "RO" \in attribute THEN {"READ"} ELSE {"READ", "EXECUTE"})
     ELSE {"READ", "WRITE"})
RtFlags(attribute) ==
    {"MAP"} \cup
    (IF "XP" \in attribute
     THEN (IF "RO" \in attribute THEN {"READ"} ELSE {"READ", "WRITE"})
     ELSE {"READ", "EXECUTE"})

\* Lines 339-352: the region written for the entry mat_md points at.
RtMrd(md) ==
    [pbase |-> md.physical_start,
     vbase |-> md.physical_start,
     len |-> Wrap(md.number_of_pages * PAGE_SIZE),
     type |-> "RESERVED",
     flags |-> RtFlags(md.attribute)]

\* Lines 334-355.  `continue` skips the advance of mat_md at line 354.
RECURSIVE RtLoop(_, _, _, _)
RtLoop(mat, i, off, arr) ==
    IF i >= mat.number_of_entries THEN arr
    ELSE IF "RUNTIME" \notin MatMdAt(mat, off).attribute
         THEN RtLoop(mat, i + 1, off, arr)
         ELSE RtLoop(mat, i + 1, off + mat.descriptor_size,
                     [arr EXCEPT ![i + 1] = RtMrd(MatMdAt(mat, off))])

\* The rt_mrds array after the loop.
RtConvert(mat) ==
    RtLoop(mat, 0, 0, [k \in 1..mat.number_of_entries |-> UninitMrd])

(***************************************************************************)
(* ascii_to_utf16 and utf16_to_ascii.  A C string is the sequence of its   *)
(* bytes before the terminator; a buffer is the sequence of its bytes.     *)
(***************************************************************************)
\* Lines 84-95.  [ret, out]: the value returned and the bytes written to
\* str16, in order, from index 0.
RECURSIVE A2ULoop(_, _, _, _)
A2ULoop(str, max_len16, i, out) ==
    IF (i \div 2) + 1 <= Len(str)
    THEN IF i = max_len16
         THEN [ret |-> SZ_MAX, out |-> out]
         ELSE A2ULoop(str, max_len16, i + 2, out \o <<str[(i \div 2) + 1], 0>>)
    ELSE [ret |-> i + 2, out |-> out \o <<0, 0>>]

\* ascii_to_utf16 without line 93.
ascii_to_utf16_m(str, max_len16) ==
    LET r == A2ULoop(str, max_len16, 0, <<>>) IN
    IF r.ret = SZ_MAX THEN r
    ELSE [ret |-> r.ret, out |-> SubSeq(r.out, 1, Len(r.out) - 2)]
ascii_to_utf16(str, max_len16) == A2ULoop(str, max_len16, 0, <<>>)

\* Lines 103-113.  str16 is a buffer of Len(str16) bytes; a read past its
\* end finds the byte `tail`.  [ret, out].
RECURSIVE U2ALoop(_, _, _, _, _)
U2ALoop(str16, max_len, tail, i, out) ==
    LET b == IF 2 * i + 1 <= Len(str16) THEN str16[2 * i + 1] ELSE tail IN
    IF b # 0
    THEN IF i = max_len
         THEN [ret |-> SZ_MAX, out |-> out]
         ELSE U2ALoop(str16, max_len, tail, i + 1, out \o <<b>>)
    ELSE [ret |-> i + 1, out |-> out \o <<0>>]

utf16_to_ascii(str16, max_len, tail) == U2ALoop(str16, max_len, tail, 0, <<>>)

\* Lines 103-110: the loop test reads the byte at offset 2 * i of str16 before
\* i is compared with max_len.  The offset of the last byte read.
U2ALastRead(str16, max_len, tail) ==
    LET r == utf16_to_ascii(str16, max_len, tail) IN
    2 * (IF r.ret = SZ_MAX THEN max_len ELSE r.ret - 1)

\* UK_EFI_ABS_FNAME(f): "\\EFI\\BOOT\\" f
UK_EFI_ABS_FNAME(f) == <<92, 69, 70, 73, 92, 66, 79, 79, 84, 92>> \o f

(***************************************************************************)
(* State of the handoff                                                    *)
(***************************************************************************)
VARIABLES
    cfg,                \* the build: the CONFIG_ options and the architecture
    pc,                 \* position of uk_efi_main
    calls,              \* history of calls to the firmware and collaborators
    uk_efi_mat_present, \* static __u8 uk_efi_mat_present
    img,                \* uk_img_hndl: [cached, load_options, load_options_size]
    bi,                 \* struct ukplat_bootinfo, but its region list
    bi_mrds,            \* bi->mrds: the regions passed to list insert, in order
    ins_src,            \* for each region of bi_mrds, where it came from
    pl,                 \* locals of the payload loaders and uk_efi_read_file
    ov,                 \* locals of the overlay: mat, rt_mrds, rt_mrds_count, i
    mm,                 \* locals of uk_efi_get_mmap_and_exit_bs
    wk,                 \* locals of the map walk: md, mrd, rc
    heap,               \* firmware allocator: live buffers, next addresses
    netdev_count,       \* lib/uknetdev: static uint16_t netdev_count
    uk_netdev_list,     \* lib/uknetdev: the devices of uk_netdev_list, in order
    netdevs,            \* lib/uknetdev: each struct uk_netdev and its _data
    nd_call             \* lib/uknetdev: the last uk_netdev_* call and its result

vars == <<cfg, pc, calls, uk_efi_mat_present, img, bi, bi_mrds, ins_src,
          pl, ov, mm, wk, heap, netdev_count, uk_netdev_list, netdevs,
          nd_call>>
\* The state of lib/uknetdev, which the handoff does not touch.
nd_vars == <<netdev_count, uk_netdev_list, netdevs, nd_call>>
NoCall == [op |-> "none", dev |-> 0, a |-> <<>>, b |-> <<>>, ret |-> 0,
           did |-> <<>>]
\* netdev.c lines 50-52: no device is registered.
NetdevNone ==
    /\ netdev_count = 0
    /\ uk_netdev_list = <<>>
    /\ netdevs = <<>>
    /\ nd_call = NoCall

Call(op, a, b, st) == [op |-> op, a |-> a, b |-> b, st |-> st]

\* A build: diagnostics, reset attack mitigation, architecture, and the
\* three configured file names (empty: not configured, sizeof(...) <= 1).
AllBuilds ==
    [PRINTD : BOOLEAN, RST_ATK_MITIGATION : BOOLEAN, X86_64 : BOOLEAN,
     CMDLINE_FNAME : {<<>>, <<99>>}, INITRD_FNAME : {<<>>, <<105>>},
     DTB_FNAME : {<<>>, <<100>>}]
\* The number of options a build turns on.
OptionsOn(b) ==
    (IF b.PRINTD THEN 1 ELSE 0) + (IF b.RST_ATK_MITIGATION THEN 1 ELSE 0)
    + (IF b.X86_64 THEN 1 ELSE 0) + Len(b.CMDLINE_FNAME)
    + Len(b.INITRD_FNAME) + Len(b.DTB_FNAME)
\* The builds explored: no option, any single option, and all options.
Builds == { b \in AllBuilds : OptionsOn(b) \in {0, 1, 6} }

\* load_options is [null, bytes]: a pointer, and the bytes it points at.
LoadOptions ==
    { [load_options |-> [null |-> TRUE, bytes |-> <<>>],
       load_options_size |-> 0],
      [load_options |-> [null |-> FALSE, bytes |-> <<97, 0, 0, 0>>],
       load_options_size |-> 4],
      [load_options |-> [null |-> FALSE, bytes |-> <<97, 0>>],
       load_options_size |-> 2],
      [load_options |-> [null |-> FALSE, bytes |-> <<97, 0, 0, 0>>],
       load_options_size |-> 0],
      [load_options |-> [null |-> TRUE, bytes |-> <<>>],
       load_options_size |-> 4] }
\* The byte behind the load options buffer.
TailBytes == {0, 98}
\* File sizes get_info reports.
FileSizes == {5}
\* Sizes the dummy get_info reports for the file info.
FileInfoLens == {80}
\* Statuses of a call that only accepts UK_EFI_SUCCESS.
Statuses == {UK_EFI_SUCCESS, UK_EFI_DEVICE_ERROR}
\* Results of ukplat_memregion_list_insert and the other collaborators.
Rcs == {"OK", "ENOMEM"}

NoPl == [who |-> "none", buf |-> 0, len |-> 0, pages |-> 0, file_info |-> 0,
         file_info_len |-> 0]
NoMat == [present |-> FALSE, descriptor_size |-> 0, number_of_entries |-> 0,
          entry |-> <<>>]
\* rt_mrds is [init, addr]: the pointer is not initialised at line 360.
NoOv == [mat |-> NoMat, rt_mrds |-> [init |-> FALSE, addr |-> 0],
         rt_mrds_count |-> 0, arr |-> <<>>, i |-> 0]
\* mem and fw_desc_sz are the contents of the map buffer: the descriptors the
\* firmware wrote and the distance in bytes between them.
NoMm == [retries |-> 0, map |-> 0, map_sz |-> 0, desc_sz |-> 0, mem |-> <<>>,
         fw_desc_sz |-> 0]
NoMd == [type |-> "NONE", physical_start |-> 0, number_of_pages |-> 0]
\* mrd_in is the value of mrd when uk_efi_md_to_bi_mrd was last called.
NoWk == [off |-> 0, md |-> NoMd, mrd_in |-> ZeroMrd, mrd |-> ZeroMrd,
         rc |-> "none"]
NoBi == [bootloader |-> "", bootprotocol |-> "", cmdline |-> 0,
         cmdline_len |-> 0, dtb |-> 0, efi_st |-> 0]
\* The address of the system table passed to uk_efi_main.
SysTbl == 15 * PAGE_SIZE
PoolBase == 12 * PAGE_SIZE

Init ==
    /\ NetdevNone
    /\ cfg \in Builds
    /\ pc = "uk_efi_main"
    /\ calls = <<>>
    /\ uk_efi_mat_present = 0
    /\ img = [cached |-> FALSE,
              load_options |-> [null |-> TRUE, bytes |-> <<>>],
              load_options_size |-> 0]
    /\ bi = NoBi
    /\ bi_mrds = <<>>
    /\ ins_src = <<>>
    /\ pl = NoPl
    /\ ov = NoOv
    /\ mm = NoMm
    /\ wk = NoWk
    /\ heap = [next_page |-> 2, next_pool |-> 0, live |-> {}]

(***************************************************************************)
(* The firmware allocator                                                  *)
(***************************************************************************)
PageAddr(h) == h.next_page * PAGE_SIZE
AllocPages(h, n) ==
    [h EXCEPT !.next_page = @ + MAX(n, 1),
              !.live = @ \cup {[kind |-> "pages", addr |-> PageAddr(h)]}]
PoolAddr(h) == PoolBase + 64 * h.next_pool
AllocPool(h) ==
    [h EXCEPT !.next_pool = @ + 1,
              !.live = @ \cup {[kind |-> "pool", addr |-> PoolAddr(h)]}]
Free(h, kind, addr) ==
    [h EXCEPT !.live = @ \ {[kind |-> kind, addr |-> addr]}]

(***************************************************************************)
(* UK_EFI_CRASH, lines 67-74 and 116-122: print when diagnostics are       *)
(* compiled in, then reset_system, which does not return.                  *)
(***************************************************************************)
CrashCalls ==
    (IF cfg.PRINTD THEN <<Call("output_string", 0, 0, UK_EFI_SUCCESS)>>
     ELSE <<>>) \o <<Call("reset_system", 0, 0, UK_EFI_SUCCESS)>>

UK_EFI_CRASH(log) ==
    /\ calls' = log \o CrashCalls
    /\ pc' = "reset"

\* uk_efi_pr_debug, lines 65 and 73
PrDebugCalls_m == <<Call("output_string", 0, 0, UK_EFI_SUCCESS)>>
PrDebugCalls ==
    IF cfg.PRINTD THEN <<Call("output_string", 0, 0, UK_EFI_SUCCESS)>> ELSE <<>>

(***************************************************************************)
(* uk_efi_main, lines 675-677                                              *)
(***************************************************************************)
\* uk_efi_init_vars and uk_efi_cls
UkEfiMain ==
    /\ pc = "uk_efi_main"
    /\ calls' = Append(calls, Call("clear_screen", 0, 0, UK_EFI_SUCCESS))
    /\ pc' = "rst_get_variable"
    /\ UNCHANGED <<nd_vars, cfg, uk_efi_mat_present, img, bi, bi_mrds, ins_src, pl, ov,
                   mm, wk, heap>>

RstGetVariable_m ==
    /\ pc = "rst_get_variable"
    /\ IF ~cfg.RST_ATK_MITIGATION
       THEN pc' = "setup_bootinfo" /\ UNCHANGED calls
       ELSE \E st \in {UK_EFI_SUCCESS, UK_EFI_NOT_FOUND, UK_EFI_UNSUPPORTED,
                       UK_EFI_DEVICE_ERROR} :
              LET log == Append(calls, Call("get_variable", 0, 0, st)) IN
              IF st \in {UK_EFI_UNSUPPORTED}
              THEN calls' = log /\ pc' = "setup_bootinfo"
              ELSE IF st # UK_EFI_SUCCESS
                   THEN UK_EFI_CRASH(log)
                   ELSE calls' = log /\ pc' = "rst_set_variable"
    /\ UNCHANGED <<nd_vars, cfg, uk_efi_mat_present, img, bi, bi_mrds, ins_src, pl, ov,
                   mm, wk, heap>>

\* uk_efi_reset_attack_mitigation_enable, lines 650-659
RstGetVariable ==
    /\ pc = "rst_get_variable"
    /\ IF ~cfg.RST_ATK_MITIGATION
       THEN pc' = "setup_bootinfo" /\ UNCHANGED calls
       ELSE \E st \in {UK_EFI_SUCCESS, UK_EFI_NOT_FOUND, UK_EFI_UNSUPPORTED,
                       UK_EFI_DEVICE_ERROR} :
              LET log == Append(calls, Call("get_variable", 0, 0, st)) IN
              IF st \in {UK_EFI_UNSUPPORTED, UK_EFI_NOT_FOUND}
              THEN calls' = log /\ pc' = "setup_bootinfo"
              ELSE IF st # UK_EFI_SUCCESS
                   THEN UK_EFI_CRASH(log)
                   ELSE calls' = log /\ pc' = "rst_set_variable"
    /\ UNCHANGED <<nd_vars, cfg, uk_efi_mat_present, img, bi, bi_mrds, ins_src, pl, ov,
                   mm, wk, heap>>

\* lines 661-668: set_variable(..., sizeof(enable), &enable), enable = 1
RstSetVariable ==
    /\ pc = "rst_set_variable"
    /\ \E st \in Statuses :
         LET log == Append(calls, Call("set_variable", 1, 1, st)) IN
         IF st # UK_EFI_SUCCESS
         THEN UK_EFI_CRASH(log)
         ELSE calls' = log /\ pc' = "setup_bootinfo"
    /\ UNCHANGED <<nd_vars, cfg, uk_efi_mat_present, img, bi, bi_mrds, ins_src, pl, ov,
                   mm, wk, heap>>

(***************************************************************************)
(* uk_efi_setup_bootinfo, lines 623-628                                    *)
(***************************************************************************)
SetupBootinfo ==
    /\ pc = "setup_bootinfo"
    /\ \E found \in BOOLEAN :
         LET log == Append(calls, Call("ukplat_bootinfo_get", 0, 0,
                                       IF found THEN "OK" ELSE "NULL")) IN
         IF ~found
         THEN UK_EFI_CRASH(log) /\ UNCHANGED bi
         ELSE /\ calls' = log
              /\ bi' = [bi EXCEPT !.bootloader = "EFI_STUB",
                                  !.bootprotocol = "EFI"]
              /\ pc' = "setup_bootinfo_cmdl"
    /\ UNCHANGED <<nd_vars, cfg, uk_efi_mat_present, img, bi_mrds, ins_src, pl, ov,
                   mm, wk, heap>>

(***************************************************************************)
(* uk_efi_get_uk_img_hndl, lines 412-428, and the source selection of      *)
(* uk_efi_setup_bootinfo_cmdl, lines 515-546                               *)
(***************************************************************************)
\* The branch taken at lines 523-546 once the image handle is known.
CmdlSource_m(h, fname) ==
    IF Len(fname) + 1 > 1 THEN "file"
    ELSE IF ~h.load_options.null /\ h.load_options_size # 0 THEN "load_options"
    ELSE "none"
CmdlSource(h, fname) ==
    IF ~h.load_options.null /\ h.load_options_size # 0 THEN "load_options"
    ELSE IF Len(fname) + 1 > 1 THEN "file"
    ELSE "none"

SetupBootinfoCmdl ==
    /\ pc = "setup_bootinfo_cmdl"
    /\ ~img.cached
    /\ \E st \in Statuses, lo \in LoadOptions :
         LET log == Append(calls, Call("handle_protocol", 0, 0, st)) IN
         IF st # UK_EFI_SUCCESS
         THEN UK_EFI_CRASH(log) /\ UNCHANGED <<img, pl>>
         ELSE LET h == [cached |-> TRUE, load_options |-> lo.load_options,
                        load_options_size |-> lo.load_options_size]
                  src == CmdlSource(h, cfg.CMDLINE_FNAME) IN
              /\ calls' = log
              /\ img' = h
              /\ pl' = [NoPl EXCEPT
                          !.who = "cmdl",
                          !.len = IF src = "load_options"
                                  THEN (h.load_options_size \div 2) + 1 ELSE 0]
              /\ pc' = CASE src = "load_options" -> "cmdl_allocate_pages"
                         [] src = "file" -> "rf_handle_protocol"
                         [] OTHER -> "setup_bootinfo_initrd"
    /\ UNCHANGED <<nd_vars, cfg, uk_efi_mat_present, bi, bi_mrds, ins_src, ov, mm, wk,
                   heap>>

\* lines 526-538
CmdlAllocatePages ==
    /\ pc = "cmdl_allocate_pages"
    /\ \E st \in Statuses, tail \in TailBytes :
         LET n == DIV_ROUND_UP(pl.len, PAGE_SIZE)
             log == Append(calls, Call("allocate_pages", PageAddr(heap), n, st))
             r == utf16_to_ascii(img.load_options.bytes, pl.len - 1, tail) IN
         IF st # UK_EFI_SUCCESS
         THEN UK_EFI_CRASH(log) /\ UNCHANGED <<pl, heap>>
         ELSE IF r.ret = SZ_MAX
              THEN /\ UK_EFI_CRASH(log)
                   /\ heap' = AllocPages(heap, n)
                   /\ pl' = [pl EXCEPT !.buf = PageAddr(heap), !.pages = n]
              ELSE /\ calls' = log
                   /\ heap' = AllocPages(heap, n)
                   /\ pl' = [pl EXCEPT !.buf = PageAddr(heap), !.pages = n,
                                      !.len = r.ret]
                   /\ pc' = "cmdl_insert"
    /\ UNCHANGED <<nd_vars, cfg, uk_efi_mat_present, img, bi, bi_mrds, ins_src, ov, mm,
                   wk>>

(***************************************************************************)
(* uk_efi_read_file, lines 431-504.  pl.who is the caller.                 *)
(***************************************************************************)
FileName(who) ==
    CASE who = "cmdl" -> cfg.CMDLINE_FNAME
      [] who = "initrd" -> cfg.INITRD_FNAME
      [] OTHER -> cfg.DTB_FNAME

\* lines 442-446
RfHandleProtocol ==
    /\ pc = "rf_handle_protocol"
    /\ \E st \in Statuses :
         LET log == Append(calls, Call("handle_protocol", 0, 0, st)) IN
         IF st # UK_EFI_SUCCESS
         THEN UK_EFI_CRASH(log)
         ELSE calls' = log /\ pc' = "rf_open_volume"
    /\ UNCHANGED <<nd_vars, cfg, uk_efi_mat_present, img, bi, bi_mrds, ins_src, pl, ov,
                   mm, wk, heap>>

\* lines 452-454
RfOpenVolume ==
    /\ pc = "rf_open_volume"
    /\ \E st \in Statuses :
         LET log == Append(calls, Call("open_volume", 0, 0, st)) IN
         IF st # UK_EFI_SUCCESS
         THEN UK_EFI_CRASH(log)
         ELSE calls' = log /\ pc' = "rf_open"
    /\ UNCHANGED <<nd_vars, cfg, uk_efi_mat_present, img, bi, bi_mrds, ins_src, pl, ov,
                   mm, wk, heap>>

\* lines 457-466
RfOpen ==
    /\ pc = "rf_open"
    /\ LET len16 == ascii_to_utf16(UK_EFI_ABS_FNAME(FileName(pl.who)),
                                   UK_EFI_MAXPATHLEN - 1).ret IN
       IF len16 > UK_EFI_MAXPATHLEN
       THEN UK_EFI_CRASH(calls)
       ELSE \E st \in Statuses :
              LET log == Append(calls, Call("open", 0, len16, st)) IN
              IF st # UK_EFI_SUCCESS
              THEN UK_EFI_CRASH(log)
              ELSE calls' = log /\ pc' = "rf_get_info_dummy"
    /\ UNCHANGED <<nd_vars, cfg, uk_efi_mat_present, img, bi, bi_mrds, ins_src, pl, ov,
                   mm, wk, heap>>

\* lines 469-474
RfGetInfoDummy ==
    /\ pc = "rf_get_info_dummy"
    /\ \E st \in {UK_EFI_BUFFER_TOO_SMALL, UK_EFI_SUCCESS, UK_EFI_DEVICE_ERROR},
          n \in FileInfoLens :
         LET log == Append(calls, Call("get_info", 0, 0, st)) IN
         IF st # UK_EFI_BUFFER_TOO_SMALL
         THEN UK_EFI_CRASH(log) /\ UNCHANGED pl
         ELSE /\ calls' = log
              /\ pl' = [pl EXCEPT !.file_info = 0, !.file_info_len = n]
              /\ pc' = "rf_allocate_pool"
    /\ UNCHANGED <<nd_vars, cfg, uk_efi_mat_present, img, bi, bi_mrds, ins_src, ov, mm,
                   wk, heap>>

\* lines 476-479
RfAllocatePool ==
    /\ pc = "rf_allocate_pool"
    /\ \E st \in Statuses :
         LET log == Append(calls, Call("allocate_pool", PoolAddr(heap),
                                       pl.file_info_len, st)) IN
         IF st # UK_EFI_SUCCESS
         THEN UK_EFI_CRASH(log) /\ UNCHANGED <<pl, heap>>
         ELSE /\ calls' = log
              /\ pl' = [pl EXCEPT !.file_info = PoolAddr(heap)]
              /\ heap' = AllocPool(heap)
              /\ pc' = "rf_get_info"
    /\ UNCHANGED <<nd_vars, cfg, uk_efi_mat_present, img, bi, bi_mrds, ins_src, ov, mm,
                   wk>>

\* lines 481-487: *len = file_info->file_size
RfGetInfoOf(Sizes) ==
    /\ pc = "rf_get_info"
    /\ \E st \in Statuses, file_size \in Sizes :
         LET log == Append(calls, Call("get_info", pl.file_info, 0, st)) IN
         IF st # UK_EFI_SUCCESS
         THEN UK_EFI_CRASH(log) /\ UNCHANGED pl
         ELSE /\ calls' = log
              /\ pl' = [pl EXCEPT !.len = file_size]
              /\ pc' = "rf_allocate_pages"
    /\ UNCHANGED <<nd_vars, cfg, uk_efi_mat_present, img, bi, bi_mrds, ins_src, ov, mm,
                   wk, heap>>
\* In the handoff: a file of one of FileSizes.
RfGetInfo == RfGetInfoOf(FileSizes)

\* lines 487-493
RfAllocatePages ==
    /\ pc = "rf_allocate_pages"
    /\ \E st \in Statuses :
         LET n == DIV_ROUND_UP(pl.len, PAGE_SIZE)
             log == Append(calls, Call("allocate_pages", PageAddr(heap), n, st))
         IN
         IF st # UK_EFI_SUCCESS
         THEN UK_EFI_CRASH(log) /\ UNCHANGED <<pl, heap>>
         ELSE /\ calls' = log
              /\ pl' = [pl EXCEPT !.buf = PageAddr(heap), !.pages = n]
              /\ heap' = AllocPages(heap, n)
              /\ pc' = "rf_read"
    /\ UNCHANGED <<nd_vars, cfg, uk_efi_mat_present, img, bi, bi_mrds, ins_src, ov, mm,
                   wk>>

\* lines 495-497
RfRead ==
    /\ pc = "rf_read"
    /\ \E st \in Statuses :
         LET log == Append(calls, Call("read", pl.buf, pl.len, st)) IN
         IF st # UK_EFI_SUCCESS
         THEN UK_EFI_CRASH(log)
         ELSE calls' = log /\ pc' = "rf_free_pool"
    /\ UNCHANGED <<nd_vars, cfg, uk_efi_mat_present, img, bi, bi_mrds, ins_src, pl, ov,
                   mm, wk, heap>>

\* lines 499-503, and the return to the caller
RfFreePool ==
    /\ pc = "rf_free_pool"
    /\ \E st \in Statuses :
         LET log == Append(calls, Call("free_pool", pl.file_info, 0, st)) IN
         IF st # UK_EFI_SUCCESS
         THEN UK_EFI_CRASH(log) /\ UNCHANGED heap
         ELSE /\ calls' = log
              /\ heap' = Free(heap, "pool", pl.file_info)
              /\ pc' = CASE pl.who = "cmdl" -> "cmdl_insert"
                         [] pl.who = "initrd" -> "initrd_insert"
                         [] OTHER -> "dtb_insert"
    /\ UNCHANGED <<nd_vars, cfg, uk_efi_mat_present, img, bi, bi_mrds, ins_src, pl, ov,
                   mm, wk>>

(***************************************************************************)
(* The payload regions: lines 548-558, 561-586, 588-615                    *)
(***************************************************************************)
PayloadMrd_m(buf, len, type) ==
    [pbase |-> buf, vbase |-> buf, len |-> len, type |-> "FREE",
     flags |-> {"READ", "WRITE"}]
PayloadMrd(buf, len, type) ==
    [pbase |-> buf, vbase |-> buf, len |-> len, type |-> type,
     flags |-> {"READ", "MAP"}]

\* lines 548-558
CmdlInsert ==
    /\ pc = "cmdl_insert"
    /\ \E rc \in Rcs :
         LET mrd == PayloadMrd(pl.buf, pl.len, "CMDLINE")
             log == Append(calls, Call("list_insert", mrd.pbase, mrd.len, rc))
         IN
         IF rc # "OK"
         THEN UK_EFI_CRASH(log) /\ UNCHANGED <<bi, bi_mrds, ins_src>>
         ELSE /\ calls' = log
              /\ bi_mrds' = Append(bi_mrds, mrd)
              /\ ins_src' = Append(ins_src, "cmdl")
              /\ bi' = [bi EXCEPT !.cmdline = pl.buf, !.cmdline_len = pl.len]
              /\ pc' = "setup_bootinfo_initrd"
    /\ UNCHANGED <<nd_vars, cfg, uk_efi_mat_present, img, pl, ov, mm, wk, heap>>

\* lines 569-576: the image handle is cached by now
SetupBootinfoInitrd ==
    /\ pc = "setup_bootinfo_initrd"
    /\ img.cached
    /\ IF Len(cfg.INITRD_FNAME) + 1 <= 1
       THEN pc' = "setup_bootinfo_dtb" /\ UNCHANGED pl
       ELSE pc' = "rf_handle_protocol" /\ pl' = [NoPl EXCEPT !.who = "initrd"]
    /\ UNCHANGED <<nd_vars, cfg, calls, uk_efi_mat_present, img, bi, bi_mrds, ins_src,
                   ov, mm, wk, heap>>

\* lines 578-585
InitrdInsert ==
    /\ pc = "initrd_insert"
    /\ \E rc \in Rcs :
         LET mrd == PayloadMrd(pl.buf, pl.len, "INITRD")
             log == Append(calls, Call("list_insert", mrd.pbase, mrd.len, rc))
         IN
         IF rc # "OK"
         THEN UK_EFI_CRASH(log) /\ UNCHANGED <<bi_mrds, ins_src>>
         ELSE /\ calls' = log
              /\ bi_mrds' = Append(bi_mrds, mrd)
              /\ ins_src' = Append(ins_src, "initrd")
              /\ pc' = "setup_bootinfo_dtb"
    /\ UNCHANGED <<nd_vars, cfg, uk_efi_mat_present, img, bi, pl, ov, mm, wk, heap>>

\* lines 596-603
SetupBootinfoDtb_m ==
    /\ pc = "setup_bootinfo_dtb"
    /\ img.cached
    /\ pc' = "rf_handle_protocol" /\ pl' = [NoPl EXCEPT !.who = "dtb"]
    /\ UNCHANGED <<nd_vars, cfg, calls, uk_efi_mat_present, img, bi, bi_mrds, ins_src,
                   ov, mm, wk, heap>>
SetupBootinfoDtb ==
    /\ pc = "setup_bootinfo_dtb"
    /\ img.cached
    /\ IF Len(cfg.DTB_FNAME) + 1 <= 1
       THEN pc' = "setup_bootinfo_mrds" /\ UNCHANGED pl
       ELSE pc' = "rf_handle_protocol" /\ pl' = [NoPl EXCEPT !.who = "dtb"]
    /\ UNCHANGED <<nd_vars, cfg, calls, uk_efi_mat_present, img, bi, bi_mrds, ins_src,
                   ov, mm, wk, heap>>

\* lines 605-614
DtbInsert ==
    /\ pc = "dtb_insert"
    /\ \E rc \in Rcs :
         LET mrd == PayloadMrd(pl.buf, pl.len, "DEVICETREE")
             log == Append(calls, Call("list_insert", mrd.pbase, mrd.len, rc))
         IN
         IF rc # "OK"
         THEN UK_EFI_CRASH(log) /\ UNCHANGED <<bi, bi_mrds, ins_src>>
         ELSE /\ calls' = log
              /\ bi_mrds' = Append(bi_mrds, mrd)
              /\ ins_src' = Append(ins_src, "dtb")
              /\ bi' = [bi EXCEPT !.dtb = pl.buf]
              /\ pc' = "setup_bootinfo_mrds"
    /\ UNCHANGED <<nd_vars, cfg, uk_efi_mat_present, img, pl, ov, mm, wk, heap>>

(***************************************************************************)
(* uk_efi_setup_bootinfo_mrds, lines 358-410, with                         *)
(* uk_efi_rt_md_to_bi_mrds and uk_efi_get_mmap_and_exit_bs                 *)
(***************************************************************************)
\* Sequences over S of length lo..hi.
SeqsOf(S, lo, hi) == UNION { [1..n -> S] : n \in lo..hi }

\* The attribute table entries and tables the firmware may hold.
MatEntries ==
    { [physical_start |-> 8 * PAGE_SIZE, number_of_pages |-> 1,
       attribute |-> {"RUNTIME", "XP", "RO"}],
      [physical_start |-> 9 * PAGE_SIZE, number_of_pages |-> 1,
       attribute |-> {"XP"}] }
MatTables ==
    { [present |-> TRUE, descriptor_size |-> FwDescSize,
       number_of_entries |-> Len(e), entry |-> e] :
      e \in SeqsOf(MatEntries, 0, MaxMatEntries) }
\* What a slot of rt_mrds that was never written may hold.
GarbageMrds ==
    { ZeroMrd,
      [pbase |-> 5 * PAGE_SIZE, vbase |-> 0, len |-> 7, type |-> "FREE",
       flags |-> {"READ", "WRITE", "EXECUTE"}] }
\* What the rt_mrds pointer may hold when it was never assigned.
UninitPtrs == {0, PoolBase}
\* The descriptors and maps the firmware may report.
MapDescs ==
    { [type |-> "CONVENTIONAL_MEMORY", physical_start |-> 2 * PAGE_SIZE,
       number_of_pages |-> 4],
      [type |-> "RUNTIME_SERVICES_DATA", physical_start |-> 8 * PAGE_SIZE,
       number_of_pages |-> 2] }
FwMaps == SeqsOf(MapDescs, 1, MaxMapDescs)

\* lines 367-371
SetupBootinfoMrds ==
    /\ pc = "setup_bootinfo_mrds"
    /\ IF ~cfg.X86_64
       THEN pc' = "rt_md_to_bi_mrds" /\ UNCHANGED calls
       ELSE \E rc \in Rcs :
              LET log == Append(calls, Call("insert_legacy_hi_mem", 0, 0, rc))
              IN
              IF rc # "OK"
              THEN UK_EFI_CRASH(log)
              ELSE calls' = log /\ pc' = "rt_md_to_bi_mrds"
    /\ UNCHANGED <<nd_vars, cfg, uk_efi_mat_present, img, bi, bi_mrds, ins_src, pl, ov,
                   mm, wk, heap>>

\* uk_efi_rt_md_to_bi_mrds, lines 306-355
RtMdToBiMrds ==
    /\ pc = "rt_md_to_bi_mrds"
    /\ \E mat \in {NoMat} \cup MatTables :
         IF ~mat.present
         THEN /\ pc' = "rt_free_pool"
              /\ ov' = [NoOv EXCEPT !.mat = mat]
              /\ UNCHANGED <<calls, uk_efi_mat_present, heap>>
         ELSE \E st \in Statuses :
                LET log == Append(calls, Call("allocate_pool", PoolAddr(heap),
                                              mat.number_of_entries, st)) IN
                /\ uk_efi_mat_present' = 1
                /\ IF st # UK_EFI_SUCCESS
                   THEN /\ UK_EFI_CRASH(log)
                        /\ ov' = [NoOv EXCEPT
                                    !.mat = mat,
                                    !.rt_mrds_count = mat.number_of_entries]
                        /\ UNCHANGED heap
                   ELSE /\ calls' = log
                        /\ heap' = AllocPool(heap)
                        /\ ov' = [mat |-> mat,
                                  rt_mrds |-> [init |-> TRUE,
                                               addr |-> PoolAddr(heap)],
                                  rt_mrds_count |-> mat.number_of_entries,
                                  arr |-> RtConvert(mat),
                                  i |-> 0]
                        /\ pc' = IF 0 < mat.number_of_entries
                                 THEN "rt_insert" ELSE "rt_free_pool"
    /\ UNCHANGED <<nd_vars, cfg, img, bi, bi_mrds, ins_src, pl, mm, wk>>

\* lines 375-379: one iteration
RtInsert ==
    /\ pc = "rt_insert"
    /\ ov.i < ov.rt_mrds_count
    /\ \E rc \in Rcs,
          mrd \in (IF ov.arr[ov.i + 1].type = "UNINIT" THEN GarbageMrds
                   ELSE {ov.arr[ov.i + 1]}) :
         LET log == Append(calls, Call("list_insert", mrd.pbase, mrd.len, rc))
         IN
         IF rc # "OK"
         THEN UK_EFI_CRASH(log) /\ UNCHANGED <<bi_mrds, ins_src, ov>>
         ELSE /\ calls' = log
              /\ bi_mrds' = Append(bi_mrds, mrd)
              /\ ins_src' = Append(ins_src, "rt")
              /\ ov' = [ov EXCEPT !.i = @ + 1]
              /\ pc' = IF ov.i + 1 < ov.rt_mrds_count
                       THEN "rt_insert" ELSE "rt_free_pool"
    /\ UNCHANGED <<nd_vars, cfg, uk_efi_mat_present, img, bi, pl, mm, wk, heap>>

\* lines 382-384
RtFreePool ==
    /\ pc = "rt_free_pool"
    /\ \E st \in Statuses,
          p \in (IF ov.rt_mrds.init THEN {ov.rt_mrds.addr} ELSE UninitPtrs) :
         LET log == Append(calls, Call("free_pool", p, 0, st)) IN
         IF st # UK_EFI_SUCCESS
         THEN UK_EFI_CRASH(log) /\ UNCHANGED heap
         ELSE /\ calls' = log
              /\ heap' = Free(heap, "pool", p)
              /\ pc' = "mm_get_memory_map_dummy"
    /\ UNCHANGED <<nd_vars, cfg, uk_efi_mat_present, img, bi, bi_mrds, ins_src, pl, ov,
                   mm, wk>>

(***************************************************************************)
(* uk_efi_get_mmap_and_exit_bs, lines 219-283                              *)
(***************************************************************************)
\* line 230
RetriesExhausted_m(retries) == retries > 2
RetriesExhausted(retries) == retries > 1

\* lines 234-236: what is freed
FreePagesArgs_m(m) == [addr |-> 0, n |-> DIV_ROUND_UP(m.map_sz, PAGE_SIZE)]
FreePagesArgs(m) == [addr |-> m.map, n |-> DIV_ROUND_UP(m.map_sz, PAGE_SIZE)]

\* lines 229-239, entered by the goto of line 281 (retries # 0)
GetMmapRetry ==
    /\ pc = "mm_retry"
    /\ mm.retries # 0
    /\ IF RetriesExhausted(mm.retries)
       THEN UK_EFI_CRASH(calls) /\ UNCHANGED <<heap, mm>>
       ELSE \E st \in Statuses :
              LET f == FreePagesArgs(mm)
                  log == Append(calls, Call("free_pages", f.addr, f.n, st)) IN
              IF st # UK_EFI_SUCCESS
              THEN UK_EFI_CRASH(log) /\ UNCHANGED <<heap, mm>>
              ELSE /\ calls' = log
                   /\ heap' = Free(heap, "pages", f.addr)
                   /\ mm' = [mm EXCEPT !.mem = <<>>]
                   /\ pc' = "mm_get_memory_map_dummy"
    /\ UNCHANGED <<nd_vars, cfg, uk_efi_mat_present, img, bi, bi_mrds, ins_src, pl, ov,
                   wk>>

\* lines 250-255
GetMmapDummy_m ==
    /\ pc = "mm_get_memory_map_dummy"
    /\ \E st \in {UK_EFI_BUFFER_TOO_SMALL, UK_EFI_SUCCESS, UK_EFI_DEVICE_ERROR},
          n \in 1..MaxMapDescs :
         LET log == Append(calls, Call("get_memory_map", 0, 0, st)) IN
         IF st \notin {UK_EFI_BUFFER_TOO_SMALL, UK_EFI_SUCCESS}
         THEN /\ UK_EFI_CRASH(log)
              /\ mm' = [mm EXCEPT !.map_sz = 0, !.map = 0, !.mem = <<>>]
         ELSE /\ calls' = log
              /\ mm' = [mm EXCEPT !.map_sz = n * FwDescSize, !.map = 0,
                                  !.desc_sz = FwDescSize, !.mem = <<>>]
              /\ pc' = "mm_allocate_pages"
    /\ UNCHANGED <<nd_vars, cfg, uk_efi_mat_present, img, bi, bi_mrds, ins_src, pl, ov,
                   wk, heap>>
\* The firmware reports a size of Sizes and a stride of Strides.
GetMmapDummyOf(Sizes, Strides) ==
    /\ pc = "mm_get_memory_map_dummy"
    /\ \E st \in {UK_EFI_BUFFER_TOO_SMALL, UK_EFI_SUCCESS, UK_EFI_DEVICE_ERROR},
          sz \in Sizes, d \in Strides :
         LET log == Append(calls, Call("get_memory_map", 0, 0, st)) IN
         IF st # UK_EFI_BUFFER_TOO_SMALL
         THEN /\ UK_EFI_CRASH(log)
              /\ mm' = [mm EXCEPT !.map_sz = 0, !.map = 0, !.mem = <<>>]
         ELSE /\ calls' = log
              /\ mm' = [mm EXCEPT !.map_sz = sz, !.map = 0,
                                  !.desc_sz = d, !.mem = <<>>]
              /\ pc' = "mm_allocate_pages"
    /\ UNCHANGED <<nd_vars, cfg, uk_efi_mat_present, img, bi, bi_mrds, ins_src, pl, ov,
                   wk, heap>>
\* In the handoff: a map of 1..MaxMapDescs descriptors.
GetMmapDummy ==
    GetMmapDummyOf({ n * FwDescSize : n \in 1..MaxMapDescs }, {FwDescSize})

\* lines 258-265
GetMmapAllocatePages ==
    /\ pc = "mm_allocate_pages"
    /\ \E st \in Statuses :
         LET sz == mm.map_sz + mm.desc_sz * UK_EFI_SURPLUS_MEM_DESC_COUNT
             n == DIV_ROUND_UP(sz, PAGE_SIZE)
             log == Append(calls, Call("allocate_pages", PageAddr(heap), n, st))
         IN
         IF st # UK_EFI_SUCCESS
         THEN /\ UK_EFI_CRASH(log)
              /\ mm' = [mm EXCEPT !.map_sz = sz]
              /\ UNCHANGED heap
         ELSE /\ calls' = log
              /\ mm' = [mm EXCEPT !.map_sz = sz, !.map = PageAddr(heap)]
              /\ heap' = AllocPages(heap, n)
              /\ pc' = "mm_get_memory_map"
    /\ UNCHANGED <<nd_vars, cfg, uk_efi_mat_present, img, bi, bi_mrds, ins_src, pl, ov,
                   wk>>

\* lines 268-271: the firmware writes the map and its size into the buffer
\* The firmware answers with one of Answers: [mem, sz, desc_sz], the
\* descriptors written, their size in bytes and the stride.
GetMmapRealOf(Answers) ==
    /\ pc = "mm_get_memory_map"
    /\ \E st \in Statuses, m \in Answers :
         LET log == Append(calls, Call("get_memory_map", mm.map, m.sz, st)) IN
         /\ m.sz <= mm.map_sz
         /\ IF st # UK_EFI_SUCCESS
            THEN UK_EFI_CRASH(log) /\ UNCHANGED mm
            ELSE /\ calls' = log
                 /\ mm' = [mm EXCEPT !.map_sz = m.sz, !.desc_sz = m.desc_sz,
                                     !.mem = m.mem,
                                     !.fw_desc_sz = m.desc_sz]
                 /\ pc' = "mm_exit_boot_services"
    /\ UNCHANGED <<nd_vars, cfg, uk_efi_mat_present, img, bi, bi_mrds, ins_src, pl, ov,
                   wk, heap>>
\* In the handoff: one of FwMaps.
GetMmapReal ==
    GetMmapRealOf({ [mem |-> m, sz |-> Len(m) * FwDescSize,
                     desc_sz |-> FwDescSize] : m \in FwMaps })

\* lines 277-283
ExitBootServices ==
    /\ pc = "mm_exit_boot_services"
    /\ \E st \in Statuses :
         LET log == Append(calls, Call("exit_boot_services", 0, 0, st)) IN
         IF st # UK_EFI_SUCCESS
         THEN /\ calls' = log \o PrDebugCalls
              /\ mm' = [mm EXCEPT !.retries = @ + 1]
              /\ pc' = "mm_retry"
              /\ UNCHANGED wk
         ELSE /\ calls' = log
              /\ wk' = [NoWk EXCEPT !.off = 0]
              /\ pc' = IF 0 < mm.map_sz THEN "walk" ELSE "coalesce"
              /\ UNCHANGED mm
    /\ UNCHANGED <<nd_vars, cfg, uk_efi_mat_present, img, bi, bi_mrds, ins_src, pl, ov,
                   heap>>

(***************************************************************************)
(* uk_efi_setup_bootinfo_mrds, lines 392-410: the walk and what follows    *)
(***************************************************************************)
\* What lies in the map buffer where the firmware wrote no descriptor.
GarbageMd == [type |-> "OEM_0x80000000", physical_start |-> 0,
              number_of_pages |-> 0]
\* The descriptor at byte offset off of the map buffer: the firmware wrote
\* descriptor k at k * stride.
MapMdAt(mem, stride, off) ==
    IF off % stride = 0 /\ off \div stride < Len(mem)
    THEN mem[(off \div stride) + 1]
    ELSE GarbageMd

\* UK_CRASH, lines 400 and 408: the kernel's crash, no firmware call
UK_CRASH_m(log) == UK_EFI_CRASH(log)
UK_CRASH(log) ==
    /\ calls' = Append(log, Call("UK_CRASH", 0, 0, "OK"))
    /\ pc' = "uk_crash"

Walk_m ==
    /\ pc = "walk"
    /\ wk.off < mm.map_sz
    /\ LET md == MapMdAt(mm.mem, mm.fw_desc_sz, wk.off)
           r == uk_efi_md_to_bi_mrd(md, wk.mrd, uk_efi_mat_present)
           nxt == [off |-> wk.off + FwDescSize, md |-> md, mrd_in |-> wk.mrd,
                   mrd |-> r.mrd, rc |-> r.rc] IN
       IF r.rc # "OK"
       THEN /\ wk' = nxt
            /\ pc' = IF nxt.off < mm.map_sz THEN "walk" ELSE "coalesce"
            /\ UNCHANGED <<calls, bi_mrds, ins_src>>
       ELSE \E rc \in Rcs :
              LET log == Append(calls, Call("list_insert", r.mrd.pbase,
                                            r.mrd.len, rc)) IN
              IF rc # "OK"
              THEN /\ UK_CRASH(log)
                   /\ wk' = [nxt EXCEPT !.off = wk.off]
                   /\ UNCHANGED <<bi_mrds, ins_src>>
              ELSE /\ calls' = log
                   /\ bi_mrds' = Append(bi_mrds, r.mrd)
                   /\ ins_src' = Append(ins_src, md.type)
                   /\ wk' = nxt
                   /\ pc' = IF nxt.off < mm.map_sz THEN "walk" ELSE "coalesce"
    /\ UNCHANGED <<nd_vars, cfg, uk_efi_mat_present, img, bi, pl, ov, mm, heap>>

\* lines 393-401: one iteration
Walk ==
    /\ pc = "walk"
    /\ wk.off < mm.map_sz
    /\ LET md == MapMdAt(mm.mem, mm.fw_desc_sz, wk.off)
           r == uk_efi_md_to_bi_mrd(md, wk.mrd, uk_efi_mat_present)
           nxt == [off |-> wk.off + mm.desc_sz, md |-> md, mrd_in |-> wk.mrd,
                   mrd |-> r.mrd, rc |-> r.rc] IN
       IF r.rc # "OK"
       THEN /\ wk' = nxt
            /\ pc' = IF nxt.off < mm.map_sz THEN "walk" ELSE "coalesce"
            /\ UNCHANGED <<calls, bi_mrds, ins_src>>
       ELSE \E rc \in Rcs :
              LET log == Append(calls, Call("list_insert", r.mrd.pbase,
                                            r.mrd.len, rc)) IN
              IF rc # "OK"
              THEN /\ UK_CRASH(log)
                   /\ wk' = [nxt EXCEPT !.off = wk.off]
                   /\ UNCHANGED <<bi_mrds, ins_src>>
              ELSE /\ calls' = log
                   /\ bi_mrds' = Append(bi_mrds, r.mrd)
                   /\ ins_src' = Append(ins_src, md.type)
                   /\ wk' = nxt
                   /\ pc' = IF nxt.off < mm.map_sz THEN "walk" ELSE "coalesce"
    /\ UNCHANGED <<nd_vars, cfg, uk_efi_mat_present, img, bi, pl, ov, mm, heap>>

\* line 403
Coalesce_m ==
    /\ pc = "coalesce"
    /\ pc' = "alloc_sipi_vect"
    /\ UNCHANGED <<nd_vars, cfg, calls, uk_efi_mat_present, img, bi, bi_mrds, ins_src,
                   pl, ov, mm, wk, heap>>
Coalesce ==
    /\ pc = "coalesce"
    /\ calls' = Append(calls, Call("list_coalesce", 0, 0, "OK"))
    /\ pc' = "alloc_sipi_vect"
    /\ UNCHANGED <<nd_vars, cfg, uk_efi_mat_present, img, bi, bi_mrds, ins_src, pl, ov,
                   mm, wk, heap>>

\* lines 405-409
AllocSipiVect ==
    /\ pc = "alloc_sipi_vect"
    /\ IF ~cfg.X86_64
       THEN pc' = "set_efi_st" /\ UNCHANGED calls
       ELSE \E rc \in Rcs :
              LET log == Append(calls, Call("alloc_sipi_vect", 0, 0, rc)) IN
              IF rc # "OK"
              THEN UK_CRASH(log)
              ELSE calls' = log /\ pc' = "set_efi_st"
    /\ UNCHANGED <<nd_vars, cfg, uk_efi_mat_present, img, bi, bi_mrds, ins_src, pl, ov,
                   mm, wk, heap>>

\* uk_efi_setup_bootinfo, line 634
SetEfiSt ==
    /\ pc = "set_efi_st"
    /\ bi' = [bi EXCEPT !.efi_st = SysTbl]
    /\ pc' = "jmp_to_kern"
    /\ UNCHANGED <<nd_vars, cfg, calls, uk_efi_mat_present, img, bi_mrds, ins_src, pl,
                   ov, mm, wk, heap>>

\* uk_efi_main, line 685
JmpToKern ==
    /\ pc = "jmp_to_kern"
    /\ calls' = Append(calls, Call("uk_efi_jmp_to_kern", 0, 0, "OK"))
    /\ pc' = "kernel"
    /\ UNCHANGED <<nd_vars, cfg, uk_efi_mat_present, img, bi, bi_mrds, ins_src, pl, ov,
                   mm, wk, heap>>

Next ==
    \/ UkEfiMain \/ RstGetVariable \/ RstSetVariable \/ SetupBootinfo
    \/ SetupBootinfoCmdl \/ CmdlAllocatePages
    \/ RfHandleProtocol \/ RfOpenVolume \/ RfOpen \/ RfGetInfoDummy
    \/ RfAllocatePool \/ RfGetInfo \/ RfAllocatePages \/ RfRead \/ RfFreePool
    \/ CmdlInsert \/ SetupBootinfoInitrd \/ InitrdInsert
    \/ SetupBootinfoDtb \/ DtbInsert
    \/ SetupBootinfoMrds \/ RtMdToBiMrds \/ RtInsert \/ RtFreePool
    \/ GetMmapRetry \/ GetMmapDummy \/ GetMmapAllocatePages \/ GetMmapReal
    \/ ExitBootServices
    \/ Walk \/ Coalesce \/ AllocSipiVect \/ SetEfiSt \/ JmpToKern

Spec == Init /\ [][Next]_vars

(***************************************************************************)
(* uk_efi_md_to_bi_mrd on its own: every memory type, ranges at both ends  *)
(* of the address space, with and without an attribute table, and an       *)
(* output region that is zeroed or left by an earlier iteration.           *)
(***************************************************************************)
TranslateMds ==
    [type : EfiTypes,
     physical_start : {0, PAGE_SIZE \div 2, PAGE_SIZE, 2 * PAGE_SIZE,
                       AddrSpace - PAGE_SIZE},
     number_of_pages : {0, 1, 2, AddrSpace \div PAGE_SIZE}]
\* An output region as an earlier iteration of the walk leaves it.
EarlierMrd ==
    [pbase |-> 3 * PAGE_SIZE, vbase |-> 3 * PAGE_SIZE, len |-> PAGE_SIZE,
     type |-> "FREE", flags |-> {"READ", "WRITE"}]
NoBuild == CHOOSE b \in AllBuilds : OptionsOn(b) = 0

InitTranslate ==
    /\ NetdevNone
    /\ cfg = NoBuild
    /\ pc = "md_to_bi_mrd"
    /\ calls = <<>>
    /\ uk_efi_mat_present \in {0, 1}
    /\ img = [cached |-> FALSE,
              load_options |-> [null |-> TRUE, bytes |-> <<>>],
              load_options_size |-> 0]
    /\ bi = NoBi
    /\ bi_mrds = <<>>
    /\ ins_src = <<>>
    /\ pl = NoPl
    /\ ov = NoOv
    /\ mm = NoMm
    /\ wk \in [off : {0}, md : TranslateMds, mrd_in : {ZeroMrd},
               mrd : {ZeroMrd, EarlierMrd}, rc : {"none"}]
    /\ heap = [next_page |-> 2, next_pool |-> 0, live |-> {}]

MdToBiMrdCall ==
    /\ pc = "md_to_bi_mrd"
    /\ LET r == uk_efi_md_to_bi_mrd(wk.md, wk.mrd, uk_efi_mat_present) IN
       wk' = [wk EXCEPT !.mrd_in = wk.mrd, !.mrd = r.mrd, !.rc = r.rc]
    /\ pc' = "md_to_bi_mrd_ret"
    /\ UNCHANGED <<nd_vars, cfg, calls, uk_efi_mat_present, img, bi, bi_mrds, ins_src,
                   pl, ov, mm, heap>>

NextTranslate == MdToBiMrdCall
SpecTranslate == InitTranslate /\ [][NextTranslate]_vars

(***************************************************************************)
(* The conversion loop of uk_efi_rt_md_to_bi_mrds on its own: every        *)
(* attribute mask, tables of 0..MaxOvEntries entries, two strides.         *)
(***************************************************************************)
OvEntries ==
    [physical_start : {8 * PAGE_SIZE, 0},
     number_of_pages : {1, 3},
     attribute : SUBSET {"RUNTIME", "XP", "RO"}]
OvTables ==
    { [present |-> TRUE, descriptor_size |-> sz,
       number_of_entries |-> Len(e), entry |-> e] :
      sz \in {FwDescSize, FwDescSize + 8},
      e \in SeqsOf(OvEntries, 0, MaxOvEntries) }

InitOverlay ==
    /\ NetdevNone
    /\ cfg = NoBuild
    /\ pc = "rt_convert"
    /\ calls = <<>>
    /\ uk_efi_mat_present = 1
    /\ img = [cached |-> FALSE,
              load_options |-> [null |-> TRUE, bytes |-> <<>>],
              load_options_size |-> 0]
    /\ bi = NoBi
    /\ bi_mrds = <<>>
    /\ ins_src = <<>>
    /\ pl = NoPl
    /\ \E mat \in OvTables :
         ov = [NoOv EXCEPT !.mat = mat,
                           !.rt_mrds = [init |-> TRUE, addr |-> PoolBase],
                           !.rt_mrds_count = mat.number_of_entries]
    /\ mm = NoMm
    /\ wk = NoWk
    /\ heap = [next_page |-> 2, next_pool |-> 1,
               live |-> {[kind |-> "pool", addr |-> PoolBase]}]

\* lines 333-355
RtConvertCall ==
    /\ pc = "rt_convert"
    /\ ov' = [ov EXCEPT !.arr = RtConvert(ov.mat)]
    /\ pc' = "rt_convert_ret"
    /\ UNCHANGED <<nd_vars, cfg, calls, uk_efi_mat_present, img, bi, bi_mrds, ins_src,
                   pl, mm, wk, heap>>

NextOverlay == RtConvertCall
SpecOverlay == InitOverlay /\ [][NextOverlay]_vars

(***************************************************************************)
(* utf16_to_ascii as uk_efi_setup_bootinfo_cmdl calls it (line 534), and   *)
(* ascii_to_utf16 applied to its result.  The load options are UTF-16      *)
(* units, low byte first, and a terminating unit.                          *)
(***************************************************************************)
\* Units: 7 bit characters, a unit with a high byte, a unit whose low
\* byte is 0.
Utf16Units == { <<1, 0>>, <<97, 0>>, <<127, 0>>, <<97, 1>>, <<0, 1>> }
\* The bytes of a sequence of units.
Bytes(u) == [k \in 1..(2 * Len(u)) |-> u[(k + 1) \div 2][((k + 1) % 2) + 1]]
RoundTripOptions ==
    { Bytes(u) \o <<0, 0>> : u \in SeqsOf(Utf16Units, 0, MaxCmdlChars) }
\* The C string in a buffer: its bytes before the first 0.
CStr(buf) ==
    LET zs == { k \in 1..Len(buf) : buf[k] = 0 } IN
    IF zs = {} THEN buf
    ELSE SubSeq(buf, 1, (CHOOSE k \in zs : \A j \in zs : k <= j) - 1)

InitRoundTrip ==
    /\ NetdevNone
    /\ cfg = NoBuild
    /\ pc = "utf16_to_ascii"
    /\ calls = <<>>
    /\ uk_efi_mat_present = 0
    /\ \E b \in RoundTripOptions :
         /\ img = [cached |-> TRUE,
                   load_options |-> [null |-> FALSE, bytes |-> b],
                   load_options_size |-> Len(b)]
         /\ pl = [who |-> "cmdl", len |-> (Len(b) \div 2) + 1, cmdl |-> <<>>,
                  str16 |-> <<>>, len16 |-> 0]
    /\ bi = NoBi
    /\ bi_mrds = <<>>
    /\ ins_src = <<>>
    /\ ov = NoOv
    /\ mm = NoMm
    /\ wk = NoWk
    /\ heap = [next_page |-> 2, next_pool |-> 0, live |-> {}]

\* lines 534-537
Utf16ToAsciiCall ==
    /\ pc = "utf16_to_ascii"
    /\ \E tail \in TailBytes :
         LET r == utf16_to_ascii(img.load_options.bytes, pl.len - 1, tail) IN
         /\ pl' = [pl EXCEPT !.cmdl = r.out, !.len = r.ret]
         /\ IF r.ret = SZ_MAX
            THEN UK_EFI_CRASH(calls)
            ELSE pc' = "ascii_to_utf16" /\ UNCHANGED calls
    /\ UNCHANGED <<nd_vars, cfg, uk_efi_mat_present, img, bi, bi_mrds, ins_src, ov, mm,
                   wk, heap>>

\* lines 80-96, into a buffer as large as the load options
AsciiToUtf16Call ==
    /\ pc = "ascii_to_utf16"
    /\ LET r == ascii_to_utf16(CStr(pl.cmdl), img.load_options_size) IN
       pl' = [pl EXCEPT !.str16 = r.out, !.len16 = r.ret]
    /\ pc' = "ascii_to_utf16_ret"
    /\ UNCHANGED <<nd_vars, cfg, calls, uk_efi_mat_present, img, bi, bi_mrds, ins_src,
                   ov, mm, wk, heap>>

NextRoundTrip == Utf16ToAsciiCall \/ AsciiToUtf16Call
SpecRoundTrip == InitRoundTrip /\ [][NextRoundTrip]_vars

(***************************************************************************)
(* ascii_to_utf16 on its own: every string of 0..MaxPathChars characters   *)
(* and every max_len16 of 0..MaxLen16, even and odd.                       *)
(***************************************************************************)
PathStrings == SeqsOf({47, 97}, 0, MaxPathChars)

InitAsciiToUtf16 ==
    /\ NetdevNone
    /\ cfg = NoBuild
    /\ pc = "path_to_utf16"
    /\ calls = <<>>
    /\ uk_efi_mat_present = 0
    /\ img = [cached |-> TRUE,
              load_options |-> [null |-> TRUE, bytes |-> <<>>],
              load_options_size |-> 0]
    /\ bi = NoBi
    /\ bi_mrds = <<>>
    /\ ins_src = <<>>
    /\ \E str \in PathStrings, n \in 0..MaxLen16 :
         pl = [who |-> "path", file_name |-> str, max_len16 |-> n,
               str16 |-> <<>>, len16 |-> 0]
    /\ ov = NoOv
    /\ mm = NoMm
    /\ wk = NoWk
    /\ heap = [next_page |-> 2, next_pool |-> 0, live |-> {}]

\* lines 80-96
PathToUtf16Call ==
    /\ pc = "path_to_utf16"
    /\ LET r == ascii_to_utf16(pl.file_name, pl.max_len16) IN
       pl' = [pl EXCEPT !.str16 = r.out, !.len16 = r.ret]
    /\ pc' = "path_to_utf16_ret"
    /\ UNCHANGED <<nd_vars, cfg, calls, uk_efi_mat_present, img, bi, bi_mrds, ins_src,
                   ov, mm, wk, heap>>

NextAsciiToUtf16 == PathToUtf16Call
SpecAsciiToUtf16 == InitAsciiToUtf16 /\ [][NextAsciiToUtf16]_vars

(***************************************************************************)
(* uk_efi_get_mmap_and_exit_bs on its own: maps whose size is near a page  *)
(* boundary, two strides, and a real query that reports another size than  *)
(* the dummy query did.  The content of the map plays no part.             *)
(***************************************************************************)
MmapStrides == { FwDescSize, FwDescSize + 8 }
MmapDummySizes ==
    { FwDescSize,
      PAGE_SIZE - UK_EFI_SURPLUS_MEM_DESC_COUNT * FwDescSize,
      PAGE_SIZE - UK_EFI_SURPLUS_MEM_DESC_COUNT * FwDescSize + FwDescSize,
      PAGE_SIZE,
      2 * PAGE_SIZE }
MmapRealAnswers ==
    [mem : {<<>>},
     sz : { FwDescSize,
            PAGE_SIZE - UK_EFI_SURPLUS_MEM_DESC_COUNT * FwDescSize
              + 2 * FwDescSize,
            PAGE_SIZE, PAGE_SIZE + FwDescSize, 2 * PAGE_SIZE + FwDescSize },
     desc_sz : MmapStrides]

InitGetMmap ==
    /\ NetdevNone
    /\ cfg = NoBuild
    /\ pc = "mm_get_memory_map_dummy"
    /\ calls = <<>>
    /\ uk_efi_mat_present = 0
    /\ img = [cached |-> TRUE,
              load_options |-> [null |-> TRUE, bytes |-> <<>>],
              load_options_size |-> 0]
    /\ bi = [NoBi EXCEPT !.bootloader = "EFI_STUB", !.bootprotocol = "EFI"]
    /\ bi_mrds = <<>>
    /\ ins_src = <<>>
    /\ pl = NoPl
    /\ ov = NoOv
    /\ mm = NoMm
    /\ wk = NoWk
    /\ heap = [next_page |-> 2, next_pool |-> 0, live |-> {}]

GetMmapDummyNearPage == GetMmapDummyOf(MmapDummySizes, MmapStrides)
GetMmapRealNearPage == GetMmapRealOf(MmapRealAnswers)

NextGetMmap ==
    \/ GetMmapRetry \/ GetMmapDummyNearPage \/ GetMmapAllocatePages
    \/ GetMmapRealNearPage \/ ExitBootServices
SpecGetMmap == InitGetMmap /\ [][NextGetMmap]_vars

(***************************************************************************)
(* The snapshot and the walk on their own: maps of 1..MaxMapDescs + 1      *)
(* descriptors that translate to a region, are skipped or are invalid,     *)
(* laid out at the size of the structure or at a larger stride.            *)
(***************************************************************************)
WalkDescs ==
    { [type |-> "CONVENTIONAL_MEMORY", physical_start |-> 2 * PAGE_SIZE,
       number_of_pages |-> 4],
      [type |-> "LOADER_DATA", physical_start |-> 6 * PAGE_SIZE,
       number_of_pages |-> 1],
      [type |-> "RUNTIME_SERVICES_DATA", physical_start |-> 8 * PAGE_SIZE,
       number_of_pages |-> 2],
      [type |-> "RESERVED_MEMORY_TYPE", physical_start |-> 0,
       number_of_pages |-> 1] }
WalkStrides == { FwDescSize, FwDescSize + 8 }
WalkAnswers ==
    { [mem |-> m, sz |-> Len(m) * d, desc_sz |-> d] :
        m \in SeqsOf(WalkDescs, 1, MaxMapDescs + 1), d \in WalkStrides }

InitWalk ==
    /\ NetdevNone
    /\ cfg = NoBuild
    /\ pc = "mm_get_memory_map_dummy"
    /\ calls = <<>>
    /\ uk_efi_mat_present \in {0, 1}
    /\ img = [cached |-> TRUE,
              load_options |-> [null |-> TRUE, bytes |-> <<>>],
              load_options_size |-> 0]
    /\ bi = [NoBi EXCEPT !.bootloader = "EFI_STUB", !.bootprotocol = "EFI"]
    /\ bi_mrds = <<>>
    /\ ins_src = <<>>
    /\ pl = NoPl
    /\ ov = NoOv
    /\ mm = NoMm
    /\ wk = NoWk
    /\ heap = [next_page |-> 2, next_pool |-> 0, live |-> {}]

GetMmapDummyWalk ==
    GetMmapDummyOf({ (MaxMapDescs + 1) * (FwDescSize + 8) }, {FwDescSize})
GetMmapRealWalk == GetMmapRealOf(WalkAnswers)

NextWalk ==
    \/ GetMmapRetry \/ GetMmapDummyWalk \/ GetMmapAllocatePages
    \/ GetMmapRealWalk \/ ExitBootServices \/ Walk
SpecWalk == InitWalk /\ [][NextWalk]_vars

(***************************************************************************)
(* uk_efi_read_file on its own, called for each of the three payloads:     *)
(* file sizes of 0, around a page and of whole pages.                      *)
(***************************************************************************)
ReadFileSizes ==
    { 0, 1, 5, PAGE_SIZE - 1, PAGE_SIZE, PAGE_SIZE + 1, 2 * PAGE_SIZE }
AllBuild == CHOOSE b \in AllBuilds : OptionsOn(b) = 6

InitReadFile ==
    /\ NetdevNone
    /\ cfg = AllBuild
    /\ pc = "rf_handle_protocol"
    /\ calls = <<>>
    /\ uk_efi_mat_present = 0
    /\ img = [cached |-> TRUE,
              load_options |-> [null |-> TRUE, bytes |-> <<>>],
              load_options_size |-> 0]
    /\ bi = [NoBi EXCEPT !.bootloader = "EFI_STUB", !.bootprotocol = "EFI"]
    /\ bi_mrds = <<>>
    /\ ins_src = <<>>
    /\ \E who \in {"cmdl", "initrd", "dtb"} : pl = [NoPl EXCEPT !.who = who]
    /\ ov = NoOv
    /\ mm = NoMm
    /\ wk = NoWk
    /\ heap = [next_page |-> 2, next_pool |-> 0, live |-> {}]

RfGetInfoAnySize == RfGetInfoOf(ReadFileSizes)

NextReadFile ==
    \/ RfHandleProtocol \/ RfOpenVolume \/ RfOpen \/ RfGetInfoDummy
    \/ RfAllocatePool \/ RfGetInfoAnySize \/ RfAllocatePages \/ RfRead
    \/ RfFreePool
SpecReadFile == InitReadFile /\ [][NextReadFile]_vars

(***************************************************************************)
(* Properties.  The history calls is read through these.                  *)
(***************************************************************************)
Idx(op) == { k \in DOMAIN calls : calls[k].op = op }
Min(S) == CHOOSE x \in S : \A y \in S : x <= y
Max(S) == CHOOSE x \in S : \A y \in S : y <= x
ExitCalls == Idx("exit_boot_services")
ExitOk == { k \in ExitCalls : calls[k].st = UK_EFI_SUCCESS }
ExitFailed == ExitCalls \ ExitOk
\* The boot services and protocols that end with exit_boot_services, and
\* the firmware console.
BootServiceOps ==
    { "allocate_pages", "free_pages", "allocate_pool", "free_pool",
      "get_memory_map", "handle_protocol", "open_volume", "open", "get_info",
      "read", "exit_boot_services" }
ConsoleOps == { "output_string", "clear_screen" }
\* The positions of uk_efi_main after uk_efi_get_mmap_and_exit_bs returned.
PostExitPcs ==
    { "walk", "coalesce", "alloc_sipi_vect", "set_efi_st", "jmp_to_kern",
      "kernel", "uk_crash" }

\* C1: when exit_boot_services fails on the first attempt and succeeds on
\* the second, uk_efi_get_mmap_and_exit_bs returns with the buffer of the
\* second allocate_pages and the size and stride of the second real
\* get_memory_map, and free_pages was called exactly once, on the buffer of
\* the first attempt, after the failed exit and before the second dummy
\* get_memory_map.
C1_RetryOnceThenSucceed ==
    (/\ Cardinality(ExitCalls) = 2
     /\ Min(ExitCalls) \in ExitFailed
     /\ Max(ExitCalls) \in ExitOk)
    => LET e1 == Min(ExitCalls)
           e2 == Max(ExitCalls)
           frees == Idx("free_pages")
           alloc1 == Max({ k \in Idx("allocate_pages") : k < e1 })
           alloc2 == Max({ k \in Idx("allocate_pages") : k < e2 })
           dummy2 == Min({ k \in Idx("get_memory_map") :
                             k > e1 /\ calls[k].a = 0 })
           real2 == Max({ k \in Idx("get_memory_map") : k < e2 })
       IN /\ pc \in PostExitPcs
          /\ Cardinality(frees) = 1
          /\ \A f \in frees :
               /\ calls[f].a = calls[alloc1].a
               /\ calls[f].st = UK_EFI_SUCCESS
               /\ e1 < f /\ f < dummy2
          /\ e1 < dummy2 /\ dummy2 < alloc2 /\ alloc2 < real2
          /\ mm.map = calls[alloc2].a
          /\ calls[real2].a = mm.map
          /\ mm.map_sz = calls[real2].b
          /\ mm.map_sz = Len(mm.mem) * FwDescSize
          /\ mm.desc_sz = FwDescSize
          /\ mm.retries = 1

C1_Witness ==
    /\ Cardinality(ExitCalls) = 2
    /\ Min(ExitCalls) \in ExitFailed
    /\ Max(ExitCalls) \in ExitOk
    /\ pc = "walk"

\* C2: exit_boot_services is called at most twice, and once both calls have
\* failed the only step left is the abort (reset): the boot record and the
\* region list are not touched again and the walk, the attachment of the
\* system table and the jump to the kernel are never reached.
C2_AtMostTwoExits ==
    [][/\ Cardinality(ExitCalls') <= 2
       /\ Cardinality(ExitFailed) = 2
          => /\ pc' = "reset"
             /\ calls' = calls \o CrashCalls
             /\ <<bi, bi_mrds, wk>>' = <<bi, bi_mrds, wk>>
             /\ bi.efi_st = 0 /\ wk = NoWk]_vars

C2_Witness ==
    /\ Cardinality(ExitFailed) = 2
    /\ pc = "reset"

\* C3 as claimed: after the second failed exit_boot_services there is no
\* free_pages, allocate_pages, get_memory_map, exit_boot_services or
\* console output call.
C3_Original ==
    Cardinality(ExitFailed) = 2
    => \A k \in DOMAIN calls :
         k > Max(ExitFailed)
         => calls[k].op \notin { "free_pages", "allocate_pages",
                                 "get_memory_map", "exit_boot_services",
                                 "output_string" }

\* C3 as amended: after the second failed exit_boot_services the only
\* calls are the reset and, in a build with diagnostics, the console output
\* of the retry message and of the crash message before it; without
\* diagnostics the reset is the only call.
C3_Amended ==
    Cardinality(ExitFailed) = 2
    => LET after == { k \in DOMAIN calls : k > Max(ExitFailed) } IN
       /\ \A k \in after :
            /\ calls[k].op \in { "output_string", "reset_system" }
            /\ calls[k].op = "output_string" => cfg.PRINTD
            /\ calls[k].op = "reset_system" => k = Len(calls)
       /\ Cardinality({ k \in after : calls[k].op = "output_string" }) <= 2
       /\ pc = "reset"
          => /\ calls[Len(calls)].op = "reset_system"
             /\ cfg.PRINTD
                => Cardinality({ k \in after :
                                   calls[k].op = "output_string" }) = 2

C3_Witness ==
    /\ Cardinality(ExitFailed) = 2
    /\ pc = "reset"
    /\ cfg.PRINTD

\* C4: once exit_boot_services has returned success there is no boot
\* service call and no console output, on the way to the kernel and on the
\* way to a crash; control stays behind the exit, and every region inserted
\* after it comes from the memory map, so the payloads and the overlay were
\* all loaded and inserted before it.
C4_NothingAfterExit ==
    \A e \in ExitOk :
      LET insAfter == { k \in Idx("list_insert") : k > e /\ calls[k].st = "OK" }
          insBefore == { k \in Idx("list_insert") : k < e /\ calls[k].st = "OK" }
          fromMap == { k \in DOMAIN ins_src : ins_src[k] \in EfiTypes }
      IN /\ \A k \in DOMAIN calls :
              k > e => calls[k].op \notin (BootServiceOps \cup ConsoleOps)
         /\ pc \in PostExitPcs
         /\ Cardinality(insAfter) = Cardinality(fromMap)
         /\ Cardinality(insBefore) = Len(ins_src) - Cardinality(fromMap)
         /\ \A k \in DOMAIN ins_src :
              ins_src[k] \in EfiTypes => k > Cardinality(insBefore)

C4_Witness ==
    /\ ExitOk # {}
    /\ pc = "kernel"
    /\ bi.cmdline # 0
    /\ "initrd" \in { ins_src[k] : k \in DOMAIN ins_src }
    /\ "rt" \in { ins_src[k] : k \in DOMAIN ins_src }

\* C5 as claimed: every region passed to the region list has a length of a
\* page or more, an end above its base, and a base other than 0.
C5_RegionInvariant ==
    \A k \in DOMAIN bi_mrds :
      /\ bi_mrds[k].len >= PAGE_SIZE
      /\ Wrap(bi_mrds[k].pbase + bi_mrds[k].len) > bi_mrds[k].pbase
      /\ bi_mrds[k].pbase # 0

\* The runtime-marked entries of the attribute table.
RuntimeEntries(mat) ==
    { k \in 1..mat.number_of_entries : "RUNTIME" \in mat.entry[k].attribute }

\* C6 as claimed: once the overlay regions are inserted, their number is
\* the number of table entries that have the runtime bit.
C6_OverlayCount ==
    (ov.mat.present /\ pc = "rt_free_pool")
    => Cardinality({ k \in DOMAIN ins_src : ins_src[k] = "rt" })
       = Cardinality(RuntimeEntries(ov.mat))

\* C7 as claimed: every entry k of the table that has the runtime bit
\* yields the region with base physical_start and length
\* number_of_pages * 4096, whatever the entries before it.
C7_EveryRuntimeEntry ==
    pc = "rt_convert_ret"
    => \A k \in RuntimeEntries(ov.mat) :
         /\ ov.arr[k].type # "UNINIT"
         /\ ov.arr[k].pbase = ov.mat.entry[k].physical_start
         /\ ov.arr[k].len = Wrap(ov.mat.entry[k].number_of_pages * PAGE_SIZE)

\* C8: every region the conversion loop writes is written from a
\* runtime-marked entry, is RESERVED and mapped, and its permissions (its
\* flags but MAP) are READ for an execute-protected read-only entry,
\* READ+WRITE for an execute-protected entry that is not read-only, and
\* READ+EXECUTE for an entry that is not execute-protected, read-only or
\* not.
C8_Permissions ==
    pc = "rt_convert_ret"
    => \A k \in DOMAIN ov.arr :
         ov.arr[k].type # "UNINIT"
         => LET a == ov.mat.entry[k].attribute
                perms == ov.arr[k].flags \ {"MAP"} IN
            /\ "RUNTIME" \in a
            /\ ov.arr[k].type = "RESERVED"
            /\ "MAP" \in ov.arr[k].flags
            /\ ("XP" \in a /\ "RO" \in a) => perms = {"READ"}
            /\ ("XP" \in a /\ "RO" \notin a) => perms = {"READ", "WRITE"}
            /\ "XP" \notin a => perms = {"READ", "EXECUTE"}

C8_Witness ==
    /\ pc = "rt_convert_ret"
    /\ ov.rt_mrds_count = 2
    /\ ov.mat.entry[1].attribute = {"RUNTIME", "XP", "RO"}
    /\ ov.mat.entry[2].attribute = {"RUNTIME", "RO"}
    /\ ov.arr[1].flags = {"MAP", "READ"}
    /\ ov.arr[2].flags = {"MAP", "READ", "EXECUTE"}

RtTypes == { "RUNTIME_SERVICES_CODE", "RUNTIME_SERVICES_DATA" }

\* C9: uk_efi_md_to_bi_mrd classifies by the descriptor type alone:
\* reserved, ACPI reclaim, unusable, ACPI NVS, PAL code and persistent are
\* RESERVED with READ+MAP; memory mapped I/O and I/O port space are RESERVED
\* with READ+WRITE+MAP; loader code and data are skipped (EEXIST) with or
\* without an attribute table; boot service code and data and conventional
\* memory are FREE with READ+WRITE; every other type value is invalid
\* (EINVAL) and leaves the output region as it was.
C9_Classification ==
    wk.rc # "none"
    => LET t == wk.md.type IN
       /\ t \in { "RESERVED_MEMORY_TYPE", "ACPI_RECLAIM_MEMORY",
                  "UNUSABLE_MEMORY", "ACPI_MEMORY_NVS", "PAL_CODE",
                  "PERSISTENT_MEMORY" }
          => /\ wk.rc \in {"OK", "ENOMEM"}
             /\ wk.mrd.type = "RESERVED"
             /\ wk.mrd.flags = {"READ", "MAP"}
       /\ t \in { "MEMORY_MAPPED_IO", "MEMORY_MAPPED_IO_PORT_SPACE" }
          => /\ wk.rc \in {"OK", "ENOMEM"}
             /\ wk.mrd.type = "RESERVED"
             /\ wk.mrd.flags = {"READ", "WRITE", "MAP"}
       /\ t \in { "LOADER_CODE", "LOADER_DATA" }
          => wk.rc = "EEXIST" /\ wk.mrd = wk.mrd_in
       /\ t \in { "BOOT_SERVICES_CODE", "BOOT_SERVICES_DATA",
                  "CONVENTIONAL_MEMORY" }
          => /\ wk.rc \in {"OK", "ENOMEM"}
             /\ wk.mrd.type = "FREE"
             /\ wk.mrd.flags = {"READ", "WRITE"}
       /\ t \notin EfiNamedTypes
          => wk.rc = "EINVAL" /\ wk.mrd = wk.mrd_in

C9_Witness ==
    /\ pc = "md_to_bi_mrd_ret"
    /\ wk.md.type \notin EfiNamedTypes
    /\ wk.md.number_of_pages = 2
    /\ wk.rc = "EINVAL"
    /\ wk.mrd = EarlierMrd

\* C10: the found flag is set exactly when the overlay found a table; a
\* runtime service code or data descriptor of the map is skipped (EEXIST)
\* and not inserted when the flag is set, and is a RESERVED region with
\* READ+WRITE+MAP, inserted, when it is not; no execution inserts runtime
\* service ranges both from the overlay and from the map.
C10_RuntimeOnce ==
    LET srcs == { ins_src[k] : k \in DOMAIN ins_src } IN
    /\ uk_efi_mat_present # 0 <=> ov.mat.present
    /\ (wk.rc # "none" /\ wk.md.type \in RtTypes)
       => IF uk_efi_mat_present # 0
          THEN wk.rc = "EEXIST" /\ wk.mrd = wk.mrd_in
          ELSE /\ wk.rc \in {"OK", "ENOMEM"}
               /\ wk.mrd.type = "RESERVED"
               /\ wk.mrd.flags = {"READ", "WRITE", "MAP"}
               /\ (wk.rc = "OK" /\ pc # "uk_crash")
                  => /\ bi_mrds[Len(bi_mrds)] = wk.mrd
                     /\ ins_src[Len(ins_src)] = wk.md.type
    /\ uk_efi_mat_present # 0 => srcs \cap RtTypes = {}
    /\ ~("rt" \in srcs /\ srcs \cap RtTypes # {})

C10_Witness ==
    /\ wk.md.type \in RtTypes
    /\ wk.rc = "EEXIST"
    /\ "rt" \in { ins_src[k] : k \in DOMAIN ins_src }
    /\ pc = "kernel"

\* C11: for a descriptor of an accepted type, with start the larger of
\* physical_start and the page size and end = physical_start +
\* number_of_pages * 4096 modulo the address width, uk_efi_md_to_bi_mrd
\* fails (ENOMEM, no region) exactly when end <= start or end - start is
\* less than a page, and otherwise leaves pbase = vbase = start and len =
\* end - start; so no region it produces covers address 0, and a descriptor
\* of one page at address 0 gives no region, whatever its type.
C11_RangePolicy ==
    pc = "md_to_bi_mrd_ret"
    => LET ps == wk.md.physical_start
           start == IF ps > PAGE_SIZE THEN ps ELSE PAGE_SIZE
           end == (ps + wk.md.number_of_pages * 4096) % (2 ^ AddrBits)
       IN /\ wk.rc \in {"OK", "ENOMEM"}
             => /\ wk.rc = "ENOMEM" <=> (end <= start \/ end - start < PAGE_SIZE)
                /\ wk.rc = "OK"
                   => /\ wk.mrd.pbase = start
                      /\ wk.mrd.vbase = start
                      /\ wk.mrd.len = end - start
                      /\ wk.mrd.pbase > 0
                      /\ wk.mrd.pbase + wk.mrd.len <= 2 ^ AddrBits
          /\ (ps = 0 /\ wk.md.number_of_pages = 1) => wk.rc # "OK"

C11_Witness ==
    /\ pc = "md_to_bi_mrd_ret"
    /\ wk.md.physical_start = PAGE_SIZE \div 2
    /\ wk.md.number_of_pages = 2
    /\ wk.rc = "OK"
    /\ wk.mrd.pbase = PAGE_SIZE
    /\ wk.mrd.len = PAGE_SIZE + PAGE_SIZE \div 2

\* The positions of uk_efi_read_file.
RfPcs ==
    { "rf_handle_protocol", "rf_open_volume", "rf_open", "rf_get_info_dummy",
      "rf_allocate_pool", "rf_get_info", "rf_allocate_pages", "rf_read",
      "rf_free_pool" }
\* The number of files configured besides the command line file.
OtherFiles ==
    (IF cfg.INITRD_FNAME # <<>> THEN 1 ELSE 0)
    + (IF cfg.DTB_FNAME # <<>> THEN 1 ELSE 0)
InsSrcs == { ins_src[k] : k \in DOMAIN ins_src }

\* C12: once the image handle is known, if the load options pointer is not
\* null and the load options size is not 0 the command line is decoded from
\* the load options and the command line file is never opened or read;
\* otherwise, if a command line file is configured, the command line is
\* read from that file; otherwise there is no command line.
C12_CmdlSource ==
    img.cached
    => LET lo == ~img.load_options.null /\ img.load_options_size # 0
           file == ~lo /\ cfg.CMDLINE_FNAME # <<>>
           incmdl == pl.who = "cmdl" /\ pc \in RfPcs
       IN /\ pc = "cmdl_allocate_pages" => lo
          /\ incmdl => file
          /\ lo => /\ ~incmdl
                   /\ Cardinality(Idx("open")) <= OtherFiles
                   /\ Cardinality(Idx("read")) <= OtherFiles
                   /\ pc = "cmdl_insert"
                      => /\ Idx("read") = {}
                         /\ pl.pages = DIV_ROUND_UP(
                                (img.load_options_size \div 2) + 1, PAGE_SIZE)
                         /\ pl.len <= (img.load_options_size \div 2) + 1
                         /\ calls[Len(calls)].op = "allocate_pages"
          /\ file => /\ pc # "cmdl_allocate_pages"
                     /\ pc = "cmdl_insert"
                        => /\ Cardinality(Idx("read")) = 1
                           /\ calls[Len(calls)].op = "free_pool"
                           /\ pl.len \in FileSizes
          /\ (~lo /\ ~file)
             => /\ pc \notin {"cmdl_allocate_pages", "cmdl_insert"}
                /\ ~incmdl
                /\ "cmdl" \notin InsSrcs
                /\ bi.cmdline = 0

C12_Witness ==
    /\ img.cached
    /\ ~img.load_options.null /\ img.load_options_size # 0
    /\ cfg.CMDLINE_FNAME # <<>>
    /\ "cmdl" \in InsSrcs
    /\ pc = "kernel"

\* The types of the regions inserted so far.
InsTypes == { bi_mrds[k].type : k \in DOMAIN bi_mrds }

\* C13: a payload that is not configured is passed over.  With no load
\* options and no command line file, the step that learns the image handle
\* makes that one call and goes on to the initrd; with no initrd file or no
\* device tree file, the step goes on with no call at all; none of these
\* steps resets, allocates, inserts a region or changes the boot record,
\* and at no time is there a CMDLINE, INITRD or DEVICETREE region or a
\* cmdline, cmdline_len or dtb value for a payload that has no source.
C13_AbsentPayload ==
    /\ [](/\ (img.cached /\ CmdlSource(img, cfg.CMDLINE_FNAME) = "none")
             => /\ "CMDLINE" \notin InsTypes
                /\ bi.cmdline = 0 /\ bi.cmdline_len = 0
                /\ ~(pl.who = "cmdl" /\ pc \in RfPcs)
                /\ pc # "cmdl_allocate_pages"
          /\ cfg.INITRD_FNAME = <<>>
             => "INITRD" \notin InsTypes /\ pl.who # "initrd"
          /\ cfg.DTB_FNAME = <<>>
             => "DEVICETREE" \notin InsTypes /\ bi.dtb = 0 /\ pl.who # "dtb")
    /\ [][/\ (pc = "setup_bootinfo_cmdl" /\ img'.cached
              /\ CmdlSource(img', cfg.CMDLINE_FNAME) = "none")
             => /\ pc' = "setup_bootinfo_initrd"
                /\ Len(calls') = Len(calls) + 1
                /\ calls'[Len(calls')].op = "handle_protocol"
                /\ UNCHANGED <<bi, bi_mrds, heap>>
          /\ (pc = "setup_bootinfo_initrd" /\ cfg.INITRD_FNAME = <<>>)
             => /\ pc' = "setup_bootinfo_dtb"
                /\ UNCHANGED <<calls, bi, bi_mrds, heap>>
          /\ (pc = "setup_bootinfo_dtb" /\ cfg.DTB_FNAME = <<>>)
             => /\ pc' = "setup_bootinfo_mrds"
                /\ UNCHANGED <<calls, bi, bi_mrds, heap>>]_vars

C13_Witness ==
    /\ pc = "setup_bootinfo_mrds"
    /\ img.cached
    /\ CmdlSource(img, cfg.CMDLINE_FNAME) = "none"
    /\ cfg.INITRD_FNAME = <<>>
    /\ cfg.DTB_FNAME = <<>>
    /\ Len(calls) = 3
    /\ bi.cmdline = 0 /\ bi.dtb = 0
    /\ bi_mrds = <<>>

\* Load options that are 7-bit clean and terminated: every unit before the
\* last has a low byte in 1..127 and a high byte of 0, the last is 0.
SevenBitClean(b) ==
    /\ Len(b) >= 2 /\ Len(b) % 2 = 0
    /\ b[Len(b) - 1] = 0 /\ b[Len(b)] = 0
    /\ \A k \in 1..((Len(b) \div 2) - 1) :
         b[2 * k - 1] \in 1..127 /\ b[2 * k] = 0

\* C14: for 7-bit clean, terminated load options of L bytes, utf16_to_ascii
\* as the command line setup calls it returns at most L/2 and writes a string
\* of fewer than L/2 characters and its terminator, and ascii_to_utf16 of
\* that string writes the L bytes of the load options back and returns L.
C14_RoundTrip ==
    LET b == img.load_options.bytes
        L == img.load_options_size IN
    SevenBitClean(b)
    => /\ pc \in {"ascii_to_utf16", "ascii_to_utf16_ret"}
          => /\ pl.len <= L \div 2
             /\ Len(pl.cmdl) = pl.len
             /\ Len(CStr(pl.cmdl)) = pl.len - 1
             /\ \A k \in 1..(pl.len - 1) : pl.cmdl[k] = b[2 * k - 1]
       /\ pc = "ascii_to_utf16_ret"
          => pl.str16 = b /\ pl.len16 = L
       /\ pc # "reset"

C14_Witness ==
    /\ pc = "ascii_to_utf16_ret"
    /\ img.load_options.bytes = <<97, 0, 127, 0, 1, 0, 0, 0>>
    /\ pl.cmdl = <<97, 127, 1, 0>>
    /\ pl.str16 = <<97, 0, 127, 0, 1, 0, 0, 0>>

\* The statuses the call site of a logged call accepts.  The dummy queries
\* pass a null buffer.
Accepted(c) ==
    CASE c.op \in {"get_memory_map", "get_info"} /\ c.a = 0 ->
           {UK_EFI_BUFFER_TOO_SMALL}
      [] c.op = "get_variable" ->
           {UK_EFI_SUCCESS, UK_EFI_UNSUPPORTED, UK_EFI_NOT_FOUND}
      [] c.op \in {"list_insert", "insert_legacy_hi_mem", "alloc_sipi_vect",
                   "list_coalesce", "ukplat_bootinfo_get",
                   "uk_efi_jmp_to_kern", "UK_CRASH"} -> {"OK"}
      [] OTHER -> {UK_EFI_SUCCESS}
\* The calls whose status their call site does not accept, but the first
\* exit_boot_services.
FatalCalls ==
    { k \in DOMAIN calls :
        /\ calls[k].st \notin Accepted(calls[k])
        /\ ~(calls[k].op = "exit_boot_services" /\ k = Min(ExitCalls)) }

\* C15: a call whose status its call site does not accept, other than the
\* first failed exit_boot_services, is the last call of the handoff but for
\* the abort: what follows is the diagnostics of a build that has them and
\* then the reset (the kernel's crash once boot services are gone); no
\* call is repeated, no further step runs and the kernel is not entered.
C15_FailureIsFatal ==
    /\ [](\A k \in FatalCalls :
            LET after == { j \in DOMAIN calls : j > k }
                prints == { j \in after : calls[j].op = "output_string" } IN
            /\ prints # {} => cfg.PRINTD /\ ExitOk = {}
            /\ Cardinality(prints) <= 2
            /\ Cardinality(prints) = 2 => calls[k].op = "exit_boot_services"
            /\ Idx("uk_efi_jmp_to_kern") = {}
            /\ \/ /\ pc \in {"reset", "uk_crash"}
                  /\ after = prints \cup {Len(calls)}
                  /\ Len(calls) > k
                  /\ calls[Len(calls)].op \in {"reset_system", "UK_CRASH"}
               \* the second failed exit, at the label it jumps back to
               \/ /\ pc = "mm_retry"
                  /\ calls[k].op = "exit_boot_services"
                  /\ after = prints)
    /\ [][(pc = "mm_retry" /\ FatalCalls # {}) => pc' = "reset"]_vars

C15_Witness ==
    /\ pc = "reset"
    /\ \E k \in FatalCalls :
         /\ calls[k].op = "get_memory_map"
         /\ calls[k].st = UK_EFI_SUCCESS
         /\ calls[k].a = 0
         /\ k = Len(calls) - 1

\* C16: when uk_efi_jmp_to_kern is reached, exit_boot_services has
\* succeeded exactly once, ukplat_memregion_list_coalesce was called once,
\* after every list insert, the tags are "EFI_STUB" and "EFI", and efi_st
\* holds the system table; efi_st is written once, by the last step before
\* the jump, and from then on the boot record and its regions do not
\* change.
C16_AtTheJump ==
    /\ [](pc \in {"jmp_to_kern", "kernel"}
          => /\ Cardinality(ExitOk) = 1
             /\ Cardinality(Idx("list_coalesce")) = 1
             /\ \A c \in Idx("list_coalesce"), k \in Idx("list_insert") : k < c
             /\ \A c \in Idx("list_coalesce"), e \in ExitOk : e < c
             /\ Len(bi_mrds) = Cardinality({ k \in Idx("list_insert") :
                                              calls[k].st = "OK" })
             /\ bi.bootloader = "EFI_STUB"
             /\ bi.bootprotocol = "EFI"
             /\ bi.efi_st = SysTbl
             /\ pc = "kernel"
                => calls[Len(calls)].op = "uk_efi_jmp_to_kern"
                   /\ Cardinality(Idx("uk_efi_jmp_to_kern")) = 1)
    /\ [](pc \notin {"jmp_to_kern", "kernel"} => bi.efi_st = 0)
    /\ [][/\ bi'.efi_st # bi.efi_st => pc = "set_efi_st" /\ bi.efi_st = 0
          /\ pc \in {"jmp_to_kern", "kernel"}
             => UNCHANGED <<bi, bi_mrds>>]_vars

C16_Witness ==
    /\ pc = "kernel"
    /\ Cardinality(ExitCalls) = 2
    /\ Len(bi_mrds) >= 3
    /\ bi.efi_st = SysTbl

\* The positions of uk_efi_setup_bootinfo once the startup vector is
\* reserved (lines 405-409 have returned).
AfterSipiPcs == { "set_efi_st", "jmp_to_kern", "kernel" }

\* C17 as claimed: the steps run in the order legacy memory insert, overlay
\* inserts and release of the overlay buffer, memory map and boot service
\* exit, insert of the translated descriptors, coalesce, startup vector
\* reservation, tags and system table pointer; the tags are written only
\* after the startup vector reservation.
C17_FixedOrder ==
    /\ \A a \in Idx("insert_legacy_hi_mem"), b \in Idx("get_memory_map") : a < b
    /\ \A j, k \in DOMAIN ins_src :
         (ins_src[j] = "rt" /\ ins_src[k] \in EfiTypes) => j < k
    /\ \A a \in Idx("get_memory_map"), b \in ExitOk : a < b
    /\ \A a \in ExitCalls \cup Idx("list_insert"), b \in Idx("list_coalesce") :
         a < b
    /\ \A a \in Idx("list_coalesce"), b \in Idx("alloc_sipi_vect") : a < b
    /\ bi.efi_st # 0 => pc \in {"jmp_to_kern", "kernel"}
    /\ (bi.bootloader # "" \/ bi.bootprotocol # "") => pc \in AfterSipiPcs

\* The call that allocates what a free call releases.
AllocOpOf(op) == IF op = "free_pool" THEN "allocate_pool" ELSE "allocate_pages"

\* C18 as claimed: every free_pool and free_pages call is passed a buffer
\* that an earlier successful allocate_pool or allocate_pages returned and
\* that was not freed in between.
C18_FreesAreLive ==
    \A k \in Idx("free_pool") \cup Idx("free_pages") :
      \E j \in 1..(k - 1) :
        /\ calls[j].op = AllocOpOf(calls[k].op)
        /\ calls[j].st = UK_EFI_SUCCESS
        /\ calls[j].a = calls[k].a
        /\ \A m \in (j + 1)..(k - 1) :
             ~(/\ calls[m].op = calls[k].op
               /\ calls[m].a = calls[k].a
               /\ calls[m].st = UK_EFI_SUCCESS)

\* C19 as claimed: every free_pages call of the retry path is passed the
\* buffer of the allocate_pages call before it and the page count that
\* call was passed.
C19_FreeCountMatches ==
    \A k \in Idx("free_pages") :
      \E j \in 1..(k - 1) :
        /\ calls[j].op = "allocate_pages"
        /\ calls[j].st = UK_EFI_SUCCESS
        /\ calls[j].a = calls[k].a
        /\ calls[j].b = calls[k].b

\* C20 as claimed: the buffer uk_efi_read_file allocates for a file of n
\* bytes (pl.pages pages) holds n + 1 bytes or more, so that offset n, where
\* the terminator is written once the file is read, lies inside it.
C20_TerminatorInside ==
    pc \in {"rf_read", "rf_free_pool", "cmdl_insert", "initrd_insert",
            "dtb_insert"}
    => pl.pages * PAGE_SIZE >= pl.len + 1

\* C21 as claimed: ascii_to_utf16 writes no byte of str16 at an index
\* above max_len16 + 1 (the bytes written are those at 0..Len(str16) - 1),
\* and returns __SZ_MAX whenever the characters of str take more than
\* max_len16 bytes, for even and for odd max_len16.
C21_BoundedEncoding ==
    pc = "path_to_utf16_ret"
    => /\ Len(pl.str16) - 1 <= pl.max_len16 + 1
       /\ 2 * Len(pl.file_name) > pl.max_len16 => pl.len16 = SZ_MAX

\* C22 as claimed: when uk_efi_setup_bootinfo_cmdl is about to decode load
\* options of L > 0 bytes, whatever byte follows them in memory, the
\* decoding does not return __SZ_MAX, reads no source byte at offset L or
\* above, and writes at most L/2 + 1 bytes.
C22_DecodeInBounds ==
    pc = "cmdl_allocate_pages"
    => \A tail \in TailBytes :
         LET L == img.load_options_size
             r == utf16_to_ascii(img.load_options.bytes, pl.len - 1, tail) IN
         /\ L > 0
         /\ pl.len - 1 = L \div 2
         /\ r.ret # SZ_MAX
         /\ U2ALastRead(img.load_options.bytes, pl.len - 1, tail) < L
         /\ Len(r.out) <= L \div 2 + 1

\* The descriptors of the map for which Translate returns a region.
WalkOk(md) == uk_efi_md_to_bi_mrd(md, ZeroMrd, uk_efi_mat_present).rc = "OK"

\* C23: after a successful snapshot the walk has, at every moment, visited
\* the first wk.off / stride descriptors of the map and no other offset,
\* stride being the one the real query returned; the regions inserted from
\* the map are the translations of the visited descriptors that translate
\* to a region, one each, in the order of the map; when the walk is over
\* every descriptor below the returned map size has been visited; each
\* iteration reads the descriptor at the current offset and moves one
\* stride up.
C23_WalkVisitsEach ==
    /\ [](pc \in {"walk", "coalesce"}
          => LET n == wk.off \div mm.desc_sz
                 ok == SelectSeq(SubSeq(mm.mem, 1, n), WalkOk)
                 base == Len(bi_mrds) - Len(ok) IN
             /\ mm.desc_sz = mm.fw_desc_sz
             /\ wk.off = n * mm.desc_sz
             /\ n <= Len(mm.mem)
             /\ pc = "walk" => wk.off < mm.map_sz
             /\ pc = "coalesce" => wk.off >= mm.map_sz /\ n = Len(mm.mem)
             /\ base >= 0
             /\ \A k \in 1..base : ins_src[k] \notin EfiTypes
             /\ \A j \in 1..Len(ok) :
                  /\ ins_src[base + j] = ok[j].type
                  /\ bi_mrds[base + j]
                       = uk_efi_md_to_bi_mrd(ok[j], ZeroMrd,
                                             uk_efi_mat_present).mrd)
    /\ [][(pc = "walk" /\ pc' # "uk_crash")
          => /\ wk'.off = wk.off + mm.desc_sz
             /\ wk'.md = mm.mem[(wk.off \div mm.desc_sz) + 1]
             /\ Len(bi_mrds') = Len(bi_mrds) + (IF WalkOk(wk'.md) THEN 1 ELSE 0)
         ]_vars
\* A map of three descriptors at the larger stride has been walked: one
\* was inserted, one skipped and one found invalid.
C23_Witness ==
    /\ pc = "coalesce"
    /\ mm.desc_sz = FwDescSize + 8
    /\ Len(mm.mem) = 3
    /\ Len(bi_mrds) = 1
    /\ \E k \in 1..3 : mm.mem[k].type = "LOADER_DATA"
    /\ \E k \in 1..3 : mm.mem[k].type = "RESERVED_MEMORY_TYPE"

\* The region type of each payload.
PayloadType(src) ==
    CASE src = "cmdl" -> "CMDLINE"
      [] src = "initrd" -> "INITRD"
      [] src = "dtb" -> "DEVICETREE"

\* C24: every region inserted by a payload loader has the type of its
\* payload and the flags READ+MAP, its base is the address of a buffer that
\* allocate_pages returned, and there is at most one region per payload and
\* per payload type; the boot record's cmdline and cmdline_len are the base
\* and length of the CMDLINE region (and dtb the base of the DEVICETREE
\* region); at the jump to the kernel every payload that has a source has
\* its region.
C24_PayloadRegions ==
    /\ \A k \in DOMAIN ins_src :
         ins_src[k] \in {"cmdl", "initrd", "dtb"}
         => /\ bi_mrds[k].type = PayloadType(ins_src[k])
            /\ bi_mrds[k].flags = {"READ", "MAP"}
            /\ bi_mrds[k].vbase = bi_mrds[k].pbase
            /\ \E c \in DOMAIN calls :
                 /\ calls[c].op = "allocate_pages"
                 /\ calls[c].st = UK_EFI_SUCCESS
                 /\ calls[c].a = bi_mrds[k].pbase
            /\ \A j \in DOMAIN ins_src : ins_src[j] = ins_src[k] => j = k
            /\ ins_src[k] = "cmdl"
               => /\ bi.cmdline = bi_mrds[k].pbase
                  /\ bi.cmdline_len = bi_mrds[k].len
            /\ ins_src[k] = "dtb" => bi.dtb = bi_mrds[k].pbase
    /\ \A k \in DOMAIN bi_mrds :
         bi_mrds[k].type \in {"CMDLINE", "INITRD", "DEVICETREE"}
         => /\ ins_src[k] \in {"cmdl", "initrd", "dtb"}
            /\ bi_mrds[k].type = PayloadType(ins_src[k])
    /\ pc = "jmp_to_kern"
       => /\ CmdlSource(img, cfg.CMDLINE_FNAME) # "none" => "cmdl" \in InsSrcs
          /\ cfg.INITRD_FNAME # <<>> => "initrd" \in InsSrcs
          /\ cfg.DTB_FNAME # <<>> => "dtb" \in InsSrcs
\* The three payloads are loaded, the command line from the load options.
C24_Witness ==
    /\ pc = "jmp_to_kern"
    /\ {"cmdl", "initrd", "dtb"} \subseteq InsSrcs
    /\ CmdlSource(img, cfg.CMDLINE_FNAME) = "load_options"
    /\ bi.cmdline # 0 /\ bi.cmdline_len > 0

\* The calls from position k + 1 on are the abort and nothing else.
AbortsAfter(k) ==
    /\ pc = "reset"
    /\ SubSeq(calls, k + 1, Len(calls)) = CrashCalls

\* C25: without the mitigation compiled in the variable is neither looked
\* up nor written.  With it, the lookup is made once, right after the
\* screen is cleared; on NOT_FOUND or UNSUPPORTED nothing is written and the
\* next call, if any, is the first of the boot-record assembly; on SUCCESS
\* the next call is the one write, of the 1 byte value 1, and a failed write
\* is followed by the abort only, a successful one by the boot-record
\* assembly; on any other status the abort follows and nothing is written;
\* while the mitigation runs the boot record is untouched, and both calls
\* come before every boot-record assembly call.
C25_ResetAttackMitigation ==
    LET gets == Idx("get_variable")
        sets == Idx("set_variable")
        asm == Idx("ukplat_bootinfo_get") IN
    /\ ~cfg.RST_ATK_MITIGATION => gets = {} /\ sets = {}
    /\ Cardinality(gets) <= 1 /\ Cardinality(sets) <= 1
    /\ (cfg.RST_ATK_MITIGATION /\ pc \notin {"uk_efi_main", "rst_get_variable"})
       => gets = {2}
    /\ \A g \in gets :
         /\ calls[g].st \in {UK_EFI_NOT_FOUND, UK_EFI_UNSUPPORTED}
            => /\ sets = {}
               /\ pc # "reset" \/ Len(calls) > g + Len(CrashCalls)
               /\ Len(calls) = g => pc = "setup_bootinfo"
               /\ Len(calls) > g => calls[g + 1].op = "ukplat_bootinfo_get"
         /\ calls[g].st = UK_EFI_SUCCESS
            => /\ Len(calls) = g => pc = "rst_set_variable"
               /\ Len(calls) > g => sets = {g + 1}
         /\ calls[g].st \notin {UK_EFI_NOT_FOUND, UK_EFI_UNSUPPORTED,
                                UK_EFI_SUCCESS}
            => sets = {} /\ AbortsAfter(g)
    /\ \A s \in sets :
         /\ s - 1 \in gets /\ calls[s - 1].st = UK_EFI_SUCCESS
         /\ calls[s].a = 1 /\ calls[s].b = 1
         /\ calls[s].st # UK_EFI_SUCCESS => AbortsAfter(s)
         /\ calls[s].st = UK_EFI_SUCCESS
            => /\ Len(calls) = s => pc = "setup_bootinfo"
               /\ Len(calls) > s => calls[s + 1].op = "ukplat_bootinfo_get"
    /\ \A k \in gets \cup sets : \A a \in asm : k < a
    /\ pc \in {"rst_get_variable", "rst_set_variable"}
       => bi = NoBi /\ bi_mrds = <<>> /\ asm = {}
\* The variable was not found and the handoff reached the kernel.
C25_Witness ==
    /\ pc = "kernel"
    /\ \E g \in Idx("get_variable") : calls[g].st = UK_EFI_NOT_FOUND

(***************************************************************************)
(* lib/uknetdev, netdev.c: registration, the probe/configure/start         *)
(* lifecycle and the queue set-up of network devices.  A pointer is an     *)
(* integer: 0 is NULL, -errno an error pointer, a positive number a valid  *)
(* address.  The driver is the environment: each of its callbacks answers  *)
(* any value of its result type.                                          *)
(***************************************************************************)
ENOMEM == 12
EBUSY == 16
EINVAL == 22
ENOTSUP == 95
CONFIG_LIBUKNETDEV_MAXNBQUEUES == 1
CONFIG_LIBUKNETDEV_EINFO_LIBPARAM_MAXCOUNT == 1
\* The struct uk_netdev objects the drivers hand to uk_netdev_drv_register.
MaxNetdevs == 3

MIN(a, b) == IF a < b THEN a ELSE b
\* PTRISERR: NULL and the error pointers
PTRISERR(ptr) == ptr <= 0

\* A build of the library.
NetBuilds ==
    { b \in [STATS : BOOLEAN, DISPATCHERTHREADS : BOOLEAN,
             EINFO_LIBPARAM : BOOLEAN, ASSERT : BOOLEAN] :
        Cardinality({ f \in DOMAIN b : b[f] }) \in {0, 1, 4} }
\* The callbacks a driver may leave out, and those of the drivers explored.
OptionalOps ==
    { "probe", "einfo_get", "hwaddr_set", "hwaddr_get", "promiscuous_set",
      "mtu_set" }
DriverOps == { {}, OptionalOps }
\* What a driver callback returning int answers, what rxq_configure and
\* txq_configure answer, and the queue maxima info_get reports.
DrvRets == { -ENOMEM, 0, 1 }
DrvPtrs == { -ENOMEM, 1 }
DrvMaxQueues == { 0, CONFIG_LIBUKNETDEV_MAXNBQUEUES + 1 }
QueueIds == 0..(CONFIG_LIBUKNETDEV_MAXNBQUEUES - 1)
EinfoTypes == { "IPV4_ADDR", "IPV4_MASK", "IPV4_CIDR", "IPV4_GW" }

\* struct uk_netdev_event_handler, zeroed by uk_calloc
NoHandler == [callback |-> FALSE, dispatcher |-> FALSE,
              dispatcher_s |-> FALSE, dispatcher_name |-> FALSE]
\* A struct uk_netdev as its driver hands it over: _data is "NULL", "live"
\* or "freed"; id, state and rxq_handler are the fields of *_data; _einfo is
\* [ptr, ip4]: "NULL", "ERR" or "live", and the overwritten fields.
NewNetdev(ops) ==
    [ops |-> ops, _data |-> "NULL", id |-> 0, state |-> "INVALID",
     _einfo |-> [ptr |-> "NULL", ip4 |-> {}],
     _rx_queue |-> [q \in QueueIds |-> 0],
     _tx_queue |-> [q \in QueueIds |-> 0],
     rxq_handler |-> [q \in QueueIds |-> NoHandler]]

NdCall(op, dev, a, b, ret, did) ==
    [op |-> op, dev |-> dev, a |-> a, b |-> b, ret |-> ret, did |-> did]
\* The handoff is not running.
EfiNone ==
    /\ pc = "netdev"
    /\ calls = <<>>
    /\ uk_efi_mat_present = 0
    /\ img = [cached |-> FALSE,
              load_options |-> [null |-> TRUE, bytes |-> <<>>],
              load_options_size |-> 0]
    /\ bi = NoBi
    /\ bi_mrds = <<>>
    /\ ins_src = <<>>
    /\ pl = NoPl
    /\ ov = NoOv
    /\ mm = NoMm
    /\ wk = NoWk
    /\ heap = [next_page |-> 2, next_pool |-> 0, live |-> {}]
efi_vars == <<cfg, calls, uk_efi_mat_present, img, bi, bi_mrds, ins_src, pl,
              ov, mm, wk, heap>>

\* uk_netdev_drv_register, lines 162-202, with _alloc_data, lines 73-92, and
\* the allocation of _alloc_einfo, lines 95-106
DrvRegister_m ==
    /\ pc = "netdev"
    /\ \E d \in DOMAIN netdevs, data_ok \in BOOLEAN, einfo_ok \in BOOLEAN,
          ovr \in {{}, {"cidr"}} :
         /\ netdevs[d]._data = "NULL"
         /\ IF ~data_ok
            THEN /\ nd_call' = NdCall("drv_register", d, <<>>, <<>>, -ENOMEM,
                                      <<>>)
                 /\ UNCHANGED <<netdev_count, uk_netdev_list, netdevs>>
            ELSE IF /\ cfg.EINFO_LIBPARAM
                    /\ netdev_count < CONFIG_LIBUKNETDEV_EINFO_LIBPARAM_MAXCOUNT
                    /\ ~einfo_ok
            THEN /\ netdevs' = [netdevs EXCEPT ![d]._data = "freed",
                                               ![d]._einfo.ptr = "ERR"]
                 /\ nd_call' = NdCall("drv_register", d, <<>>, <<>>, -ENOMEM,
                                      <<>>)
                 /\ UNCHANGED <<netdev_count, uk_netdev_list>>
            ELSE /\ netdevs' =
                      [netdevs EXCEPT
                         ![d]._data = "live",
                         ![d].id = netdev_count,
                         ![d].state = "UNPROBED",
                         ![d]._einfo =
                            IF /\ cfg.EINFO_LIBPARAM
                               /\ netdev_count
                                    < CONFIG_LIBUKNETDEV_EINFO_LIBPARAM_MAXCOUNT
                            THEN [ptr |-> "live", ip4 |-> ovr]
                            ELSE [ptr |-> "NULL", ip4 |-> {}]]
                 /\ uk_netdev_list' = Append(uk_netdev_list, d)
                 /\ nd_call' = NdCall("drv_register", d, <<>>, <<>>,
                                      netdev_count, <<>>)
                 /\ UNCHANGED netdev_count
    /\ UNCHANGED <<pc, efi_vars>>
DrvRegister ==
    /\ pc = "netdev"
    /\ \E d \in DOMAIN netdevs, data_ok \in BOOLEAN, einfo_ok \in BOOLEAN,
          ovr \in {{}, {"cidr"}} :
         /\ netdevs[d]._data = "NULL"
         /\ IF ~data_ok
            THEN /\ nd_call' = NdCall("drv_register", d, <<>>, <<>>, -ENOMEM,
                                      <<>>)
                 /\ UNCHANGED <<netdev_count, uk_netdev_list, netdevs>>
            ELSE IF /\ cfg.EINFO_LIBPARAM
                    /\ netdev_count < CONFIG_LIBUKNETDEV_EINFO_LIBPARAM_MAXCOUNT
                    /\ ~einfo_ok
            THEN /\ netdevs' = [netdevs EXCEPT ![d]._data = "freed",
                                               ![d]._einfo.ptr = "ERR"]
                 /\ nd_call' = NdCall("drv_register", d, <<>>, <<>>, -ENOMEM,
                                      <<>>)
                 /\ UNCHANGED <<netdev_count, uk_netdev_list>>
            ELSE /\ netdevs' =
                      [netdevs EXCEPT
                         ![d]._data = "live",
                         ![d].id = netdev_count,
                         ![d].state = "UNPROBED",
                         ![d]._einfo =
                            IF /\ cfg.EINFO_LIBPARAM
                               /\ netdev_count
                                    < CONFIG_LIBUKNETDEV_EINFO_LIBPARAM_MAXCOUNT
                            THEN [ptr |-> "live", ip4 |-> ovr]
                            ELSE [ptr |-> "NULL", ip4 |-> {}]]
                 /\ uk_netdev_list' = Append(uk_netdev_list, d)
                 /\ nd_call' = NdCall("drv_register", d, <<>>, <<>>,
                                      netdev_count, <<>>)
                 /\ netdev_count' = (netdev_count + 1) % 65536
    /\ UNCHANGED <<pc, efi_vars>>

\* uk_netdev_count, lines 204-207
NetdevCount ==
    /\ pc = "netdev"
    /\ nd_call' = NdCall("count", 0, <<>>, <<>>, netdev_count, <<>>)
    /\ UNCHANGED <<pc, efi_vars, netdev_count, uk_netdev_list, netdevs>>

\* uk_netdev_get, lines 209-220: the first device of the list with this id,
\* 0 (NULL) if there is none.  Devices are numbered from 1.
NetdevGet ==
    /\ pc = "netdev"
    /\ \E id \in 0..(Len(netdevs) + 1) :
         LET hits == { k \in DOMAIN uk_netdev_list :
                         netdevs[uk_netdev_list[k]].id = id }
             dev == IF hits = {} THEN 0
                    ELSE uk_netdev_list[CHOOSE k \in hits :
                                          \A j \in hits : k <= j] IN
         nd_call' = NdCall("get", dev, id, <<>>, 0, <<>>)
    /\ UNCHANGED <<pc, efi_vars, netdev_count, uk_netdev_list, netdevs>>

\* The order of enum uk_netdev_state.
StateRank(s) ==
    CHOOSE k \in 1..5 :
      <<"INVALID", "UNPROBED", "UNCONFIGURED", "CONFIGURED", "RUNNING">>[k] = s

\* uk_netdev_probe, lines 246-262
Probe ==
    /\ pc = "netdev"
    /\ \E d \in DOMAIN netdevs, r \in DrvRets :
         LET dev == netdevs[d]
             ret == IF "probe" \in dev.ops THEN r ELSE 0
             did == IF "probe" \in dev.ops THEN <<<<"probe", r>>>> ELSE <<>> IN
         /\ dev._data = "live"
         /\ dev.state = "UNPROBED"
         /\ netdevs' = IF ret < 0 THEN netdevs
                       ELSE [netdevs EXCEPT ![d].state = "UNCONFIGURED"]
         /\ nd_call' = NdCall("probe", d, <<>>, <<>>, ret, did)
    /\ UNCHANGED <<pc, efi_vars, netdev_count, uk_netdev_list>>

\* uk_netdev_info_get, lines 264-284
InfoGet ==
    /\ pc = "netdev"
    /\ \E d \in DOMAIN netdevs, max_rx \in DrvMaxQueues,
          max_tx \in DrvMaxQueues :
         /\ netdevs[d]._data = "live"
         /\ StateRank(netdevs[d].state) >= StateRank("UNCONFIGURED")
         /\ nd_call' =
              NdCall("info_get", d, <<>>,
                     <<MIN(CONFIG_LIBUKNETDEV_MAXNBQUEUES, max_rx),
                       MIN(CONFIG_LIBUKNETDEV_MAXNBQUEUES, max_tx)>>,
                     0, <<<<"info_get", <<max_rx, max_tx>>>>>>)
    /\ UNCHANGED <<pc, efi_vars, netdev_count, uk_netdev_list, netdevs>>

\* uk_netdev_einfo_get, lines 286-354.  have is the set of einfo types the
\* driver has a value for; the result is 0 (NULL), <<"overwrite", field>> or
\* <<"driver", type>>.
EinfoGet ==
    /\ pc = "netdev"
    /\ \E d \in DOMAIN netdevs, einfo \in EinfoTypes,
          have \in {{}, {"IPV4_CIDR"}, {"IPV4_ADDR", "IPV4_GW"}} :
         LET dev == netdevs[d]
             drv == "einfo_get" \in dev.ops
             ovr == IF cfg.EINFO_LIBPARAM /\ dev._einfo.ptr = "live"
                    THEN dev._einfo.ip4 ELSE {}
             cidr == drv /\ "IPV4_CIDR" \in have
             res == IF /\ einfo \in {"IPV4_ADDR", "IPV4_MASK"}
                       /\ ("cidr" \in ovr \/ cidr)
                    THEN 0
                    ELSE IF einfo = "IPV4_CIDR" /\ "cidr" \in ovr
                    THEN <<"overwrite", "cidr">>
                    ELSE IF einfo = "IPV4_GW" /\ "gw" \in ovr
                    THEN <<"overwrite", "gw">>
                    ELSE IF drv /\ einfo \in have THEN <<"driver", einfo>>
                    ELSE 0 IN
         /\ dev._data = "live"
         /\ StateRank(dev.state) >= StateRank("UNCONFIGURED")
         /\ nd_call' = NdCall("einfo_get", d, einfo, res, 0,
                              IF drv THEN <<<<"einfo_get", have>>>> ELSE <<>>)
    /\ UNCHANGED <<pc, efi_vars, netdev_count, uk_netdev_list, netdevs>>

\* uk_netdev_rxq_info_get and uk_netdev_txq_info_get, lines 356-382
QueueInfoGet ==
    /\ pc = "netdev"
    /\ \E d \in DOMAIN netdevs, op \in {"rxq_info_get", "txq_info_get"},
          q \in QueueIds, r \in DrvRets :
         nd_call' = NdCall(op, d, q, <<>>, r, <<<<op, r>>>>)
    /\ UNCHANGED <<pc, efi_vars, netdev_count, uk_netdev_list, netdevs>>

\* uk_netdev_configure, lines 384-424.  stats is the result of
\* uk_netdev_stats_init.
Configure_m ==
    /\ pc = "netdev"
    /\ \E d \in DOMAIN netdevs,
          nb_rx \in 0..(CONFIG_LIBUKNETDEV_MAXNBQUEUES + 1),
          nb_tx \in 0..(CONFIG_LIBUKNETDEV_MAXNBQUEUES + 1) :
         LET dev == netdevs[d]
             Ret(b, ret, did) ==
                 NdCall("configure", d, <<nb_rx, nb_tx>>, b, ret, did) IN
         /\ dev._data = "live"
         /\ IF dev.state = "RUNNING"
            THEN /\ nd_call' = Ret(<<>>, -EINVAL, <<>>)
                 /\ UNCHANGED netdevs
            ELSE \E max_rx \in DrvMaxQueues, max_tx \in DrvMaxQueues :
                   LET lim == <<MIN(CONFIG_LIBUKNETDEV_MAXNBQUEUES, max_rx),
                                MIN(CONFIG_LIBUKNETDEV_MAXNBQUEUES, max_tx)>>
                       info == <<"info_get", <<max_rx, max_tx>>>>
                   IN
                   IF nb_rx > lim[1] \/ nb_tx > lim[2]
                   THEN /\ nd_call' = Ret(lim, -EINVAL, <<info>>)
                        /\ UNCHANGED netdevs
                   ELSE \E r \in DrvRets :
                          IF r < 0
                          THEN /\ nd_call' = Ret(lim, r,
                                                 <<info, <<"configure", r>>>>)
                               /\ UNCHANGED netdevs
                          ELSE /\ netdevs' = [netdevs EXCEPT
                                                ![d].state = "CONFIGURED"]
                               /\ IF cfg.STATS
                                  THEN \E stats \in {0, -ENOMEM} :
                                         nd_call' =
                                           Ret(lim, stats,
                                               <<info, <<"configure", r>>,
                                                 <<"stats_init", stats>>>>)
                                  ELSE nd_call' =
                                         Ret(lim, r,
                                             <<info, <<"configure", r>>>>)
    /\ UNCHANGED <<pc, efi_vars, netdev_count, uk_netdev_list>>
Configure ==
    /\ pc = "netdev"
    /\ \E d \in DOMAIN netdevs,
          nb_rx \in 0..(CONFIG_LIBUKNETDEV_MAXNBQUEUES + 1),
          nb_tx \in 0..(CONFIG_LIBUKNETDEV_MAXNBQUEUES + 1) :
         LET dev == netdevs[d]
             Ret(b, ret, did) ==
                 NdCall("configure", d, <<nb_rx, nb_tx>>, b, ret, did) IN
         /\ dev._data = "live"
         /\ IF dev.state # "UNCONFIGURED"
            THEN /\ nd_call' = Ret(<<>>, -EINVAL, <<>>)
                 /\ UNCHANGED netdevs
            ELSE \E max_rx \in DrvMaxQueues, max_tx \in DrvMaxQueues :
                   LET lim == <<MIN(CONFIG_LIBUKNETDEV_MAXNBQUEUES, max_rx),
                                MIN(CONFIG_LIBUKNETDEV_MAXNBQUEUES, max_tx)>>
                       info == <<"info_get", <<max_rx, max_tx>>>>
                   IN
                   IF nb_rx > lim[1] \/ nb_tx > lim[2]
                   THEN /\ nd_call' = Ret(lim, -EINVAL, <<info>>)
                        /\ UNCHANGED netdevs
                   ELSE \E r \in DrvRets :
                          IF r < 0
                          THEN /\ nd_call' = Ret(lim, r,
                                                 <<info, <<"configure", r>>>>)
                               /\ UNCHANGED netdevs
                          ELSE /\ netdevs' = [netdevs EXCEPT
                                                ![d].state = "CONFIGURED"]
                               /\ IF cfg.STATS
                                  THEN \E stats \in {0, -ENOMEM} :
                                         nd_call' =
                                           Ret(lim, stats,
                                               <<info, <<"configure", r>>,
                                                 <<"stats_init", stats>>>>)
                                  ELSE nd_call' =
                                         Ret(lim, r,
                                             <<info, <<"configure", r>>>>)
    /\ UNCHANGED <<pc, efi_vars, netdev_count, uk_netdev_list>>

\* _create_event_handler, lines 444-493: [err, h, did].  name_ok and
\* thread_ok are the outcomes of asprintf and uk_sched_thread_create.
_create_event_handler(h, callback, name_ok, thread_ok) ==
    LET h1 == [h EXCEPT !.callback = callback] IN
    IF ~cfg.DISPATCHERTHREADS \/ ~callback
    THEN [err |-> 0, h |-> h1, did |-> <<<<"create_event_handler", 0>>>>]
    ELSE IF ~thread_ok
    THEN [err |-> -ENOMEM,
          h |-> [h1 EXCEPT !.dispatcher_s = TRUE, !.dispatcher = FALSE,
                           !.dispatcher_name = FALSE],
          did |-> <<<<"create_event_handler", -ENOMEM>>,
                    <<"thread_create", FALSE>>>>]
    ELSE [err |-> 0,
          h |-> [h1 EXCEPT !.dispatcher_s = TRUE, !.dispatcher = TRUE,
                           !.dispatcher_name = name_ok],
          did |-> <<<<"create_event_handler", 0>>,
                    <<"thread_create", TRUE>>>>]

\* _destroy_event_handler, lines 495-512: [ok, h]; ok is UK_ASSERT(
\* h->dispatcher_s).
_destroy_event_handler(h) ==
    IF ~cfg.DISPATCHERTHREADS
    THEN [ok |-> TRUE, h |-> h]
    ELSE [ok |-> h.dispatcher_s,
          h |-> [h EXCEPT !.dispatcher = FALSE, !.dispatcher_name = FALSE]]

\* uk_netdev_rxq_configure, lines 514-562.  A failed UK_ASSERT ends the
\* program in a build that has assertions.
RxqConfigure_m ==
    /\ pc = "netdev"
    /\ \E d \in DOMAIN netdevs, q \in QueueIds :
         LET dev == netdevs[d]
             Ret(ret, did) == NdCall("rxq_configure", d, q, <<>>, ret, did) IN
         /\ dev._data = "live"
         /\ IF dev.state # "CONFIGURED"
            THEN /\ nd_call' = Ret(-EINVAL, <<>>)
                 /\ UNCHANGED <<netdevs, pc>>
            ELSE IF FALSE
            THEN /\ nd_call' = Ret(-EBUSY, <<>>)
                 /\ UNCHANGED <<netdevs, pc>>
            ELSE \E callback \in BOOLEAN, name_ok \in BOOLEAN,
                    thread_ok \in BOOLEAN :
                   LET c == _create_event_handler(dev.rxq_handler[q],
                                                  callback, name_ok, thread_ok)
                       x == _destroy_event_handler(c.h) IN
                   IF c.err # 0
                   THEN /\ netdevs' = [netdevs EXCEPT
                                         ![d].rxq_handler[q] = c.h]
                        /\ nd_call' = Ret(c.err, c.did)
                        /\ UNCHANGED pc
                   ELSE \E p \in DrvPtrs :
                          IF ~PTRISERR(p)
                          THEN /\ netdevs' = [netdevs EXCEPT
                                                ![d].rxq_handler[q] = c.h,
                                                ![d]._rx_queue[q] = p]
                               /\ nd_call' =
                                    Ret(0, Append(c.did,
                                                  <<"rxq_configure", p>>))
                               /\ UNCHANGED pc
                          ELSE IF cfg.ASSERT /\ ~x.ok
                          THEN /\ netdevs' = [netdevs EXCEPT
                                                ![d].rxq_handler[q] = c.h,
                                                ![d]._rx_queue[q] = p]
                               /\ nd_call' =
                                    Ret(0, c.did \o <<<<"rxq_configure", p>>,
                                                      <<"UK_ASSERT", FALSE>>>>)
                               /\ pc' = "assert_failed"
                          ELSE /\ netdevs' = [netdevs EXCEPT
                                                ![d].rxq_handler[q] = x.h,
                                                ![d]._rx_queue[q] = p]
                               /\ nd_call' =
                                    Ret(p, c.did
                                           \o <<<<"rxq_configure", p>>,
                                                <<"destroy_event_handler",
                                                  0>>>>)
                               /\ UNCHANGED pc
    /\ UNCHANGED <<efi_vars, netdev_count, uk_netdev_list>>
RxqConfigure ==
    /\ pc = "netdev"
    /\ \E d \in DOMAIN netdevs, q \in QueueIds :
         LET dev == netdevs[d]
             Ret(ret, did) == NdCall("rxq_configure", d, q, <<>>, ret, did) IN
         /\ dev._data = "live"
         /\ IF dev.state # "CONFIGURED"
            THEN /\ nd_call' = Ret(-EINVAL, <<>>)
                 /\ UNCHANGED <<netdevs, pc>>
            ELSE IF ~PTRISERR(dev._rx_queue[q])
            THEN /\ nd_call' = Ret(-EBUSY, <<>>)
                 /\ UNCHANGED <<netdevs, pc>>
            ELSE \E callback \in BOOLEAN, name_ok \in BOOLEAN,
                    thread_ok \in BOOLEAN :
                   LET c == _create_event_handler(dev.rxq_handler[q],
                                                  callback, name_ok, thread_ok)
                       x == _destroy_event_handler(c.h) IN
                   IF c.err # 0
                   THEN /\ netdevs' = [netdevs EXCEPT
                                         ![d].rxq_handler[q] = c.h]
                        /\ nd_call' = Ret(c.err, c.did)
                        /\ UNCHANGED pc
                   ELSE \E p \in DrvPtrs :
                          IF ~PTRISERR(p)
                          THEN /\ netdevs' = [netdevs EXCEPT
                                                ![d].rxq_handler[q] = c.h,
                                                ![d]._rx_queue[q] = p]
                               /\ nd_call' =
                                    Ret(0, Append(c.did,
                                                  <<"rxq_configure", p>>))
                               /\ UNCHANGED pc
                          ELSE IF cfg.ASSERT /\ ~x.ok
                          THEN /\ netdevs' = [netdevs EXCEPT
                                                ![d].rxq_handler[q] = c.h,
                                                ![d]._rx_queue[q] = p]
                               /\ nd_call' =
                                    Ret(0, c.did \o <<<<"rxq_configure", p>>,
                                                      <<"UK_ASSERT", FALSE>>>>)
                               /\ pc' = "assert_failed"
                          ELSE /\ netdevs' = [netdevs EXCEPT
                                                ![d].rxq_handler[q] = x.h,
                                                ![d]._rx_queue[q] = p]
                               /\ nd_call' =
                                    Ret(p, c.did
                                           \o <<<<"rxq_configure", p>>,
                                                <<"destroy_event_handler",
                                                  0>>>>)
                               /\ UNCHANGED pc
    /\ UNCHANGED <<efi_vars, netdev_count, uk_netdev_list>>

\* uk_netdev_txq_configure, lines 564-590
TxqConfigure ==
    /\ pc = "netdev"
    /\ \E d \in DOMAIN netdevs, q \in QueueIds, p \in DrvPtrs :
         LET dev == netdevs[d] IN
         /\ dev._data = "live"
         /\ IF dev.state # "CONFIGURED"
            THEN /\ nd_call' = NdCall("txq_configure", d, q, <<>>, -EINVAL,
                                      <<>>)
                 /\ UNCHANGED netdevs
            ELSE IF ~PTRISERR(dev._tx_queue[q])
            THEN /\ nd_call' = NdCall("txq_configure", d, q, <<>>, -EBUSY,
                                      <<>>)
                 /\ UNCHANGED netdevs
            ELSE /\ netdevs' = [netdevs EXCEPT ![d]._tx_queue[q] = p]
                 /\ nd_call' = NdCall("txq_configure", d, q, <<>>,
                                      IF PTRISERR(p) THEN p ELSE 0,
                                      <<<<"txq_configure", p>>>>)
    /\ UNCHANGED <<pc, efi_vars, netdev_count, uk_netdev_list>>

\* uk_netdev_start, lines 592-611
Start_m ==
    /\ pc = "netdev"
    /\ \E d \in DOMAIN netdevs, r \in DrvRets :
         LET dev == netdevs[d] IN
         /\ dev._data = "live"
         /\ IF dev.state # "CONFIGURED"
            THEN /\ nd_call' = NdCall("start", d, <<>>, <<>>, -EINVAL, <<>>)
                 /\ UNCHANGED netdevs
            ELSE /\ netdevs' = [netdevs EXCEPT ![d].state = "RUNNING"]
                 /\ nd_call' = NdCall("start", d, <<>>, <<>>, r,
                                      <<<<"start", r>>>>)
    /\ UNCHANGED <<pc, efi_vars, netdev_count, uk_netdev_list>>
Start ==
    /\ pc = "netdev"
    /\ \E d \in DOMAIN netdevs, r \in DrvRets :
         LET dev == netdevs[d] IN
         /\ dev._data = "live"
         /\ IF dev.state # "CONFIGURED"
            THEN /\ nd_call' = NdCall("start", d, <<>>, <<>>, -EINVAL, <<>>)
                 /\ UNCHANGED netdevs
            ELSE /\ netdevs' = IF r >= 0
                               THEN [netdevs EXCEPT ![d].state = "RUNNING"]
                               ELSE netdevs
                 /\ nd_call' = NdCall("start", d, <<>>, <<>>, r,
                                      <<<<"start", r>>>>)
    /\ UNCHANGED <<pc, efi_vars, netdev_count, uk_netdev_list>>

\* uk_netdev_hwaddr_set, _hwaddr_get, _promiscuous_get, _promiscuous_set,
\* _mtu_get and _mtu_set, lines 613-717: the driver's answer, or -ENOTSUP
\* (NULL for hwaddr_get) where the driver has no such callback.
DriverGetSet ==
    /\ pc = "netdev"
    /\ \E d \in DOMAIN netdevs,
          op \in {"hwaddr_set", "hwaddr_get", "promiscuous_get",
                  "promiscuous_set", "mtu_get", "mtu_set"} :
         LET dev == netdevs[d] IN
         /\ dev._data = "live"
         /\ dev.state \in {"CONFIGURED", "RUNNING"}
         /\ IF op \in OptionalOps /\ op \notin dev.ops
            THEN nd_call' =
                   NdCall(op, d, <<>>, <<>>,
                          IF op = "hwaddr_get" THEN 0 ELSE -ENOTSUP, <<>>)
            ELSE \E r \in DrvRets :
                   /\ op \in {"hwaddr_get", "promiscuous_get", "mtu_get"}
                      => r >= 0
                   /\ nd_call' = NdCall(op, d, <<>>, <<>>, r, <<<<op, r>>>>)
    /\ UNCHANGED <<pc, efi_vars, netdev_count, uk_netdev_list, netdevs>>

(***************************************************************************)
(* One device through its life, in every build and with either driver.     *)
(***************************************************************************)
InitNetdev ==
    /\ EfiNone
    /\ cfg \in NetBuilds
    /\ netdev_count = 0
    /\ uk_netdev_list = <<>>
    /\ \E ops \in DriverOps : netdevs = <<NewNetdev(ops)>>
    /\ nd_call = NoCall

NextNetdev ==
    \/ DrvRegister \/ Probe \/ InfoGet \/ EinfoGet \/ QueueInfoGet
    \/ Configure \/ RxqConfigure \/ TxqConfigure \/ Start \/ DriverGetSet
SpecNetdev == InitNetdev /\ [][NextNetdev]_vars

(***************************************************************************)
(* Registration of up to MaxNetdevs devices, in every build.               *)
(***************************************************************************)
InitRegister ==
    /\ EfiNone
    /\ cfg \in NetBuilds
    /\ netdev_count = 0
    /\ uk_netdev_list = <<>>
    /\ netdevs = [d \in 1..MaxNetdevs |-> NewNetdev({})]
    /\ nd_call = NoCall

NextRegister == DrvRegister \/ NetdevCount \/ NetdevGet
SpecRegister == InitRegister /\ [][NextRegister]_vars

(***************************************************************************)
(* Properties of lib/uknetdev.  nd_call' is the call a step makes; its did *)
(* lists what the call did, each entry <<callback or helper, result>>.     *)
(***************************************************************************)
\* The call made the driver callback op and the callback answered r >= 0.
DriverAccepted(c, op) ==
    \E k \in DOMAIN c.did : c.did[k][1] = op /\ c.did[k][2] >= 0
DidOps(c) == { c.did[k][1] : k \in DOMAIN c.did }

C27_FailureKeepsState ==
    [][(nd_call'.op \in {"configure", "start"} /\ nd_call'.ret < 0)
       => netdevs'[nd_call'.dev].state = netdevs[nd_call'.dev].state]_vars

\* C28: uk_netdev_configure on a device that is not UNCONFIGURED returns
\* -EINVAL, calls no driver callback and changes nothing; on an
\* UNCONFIGURED device it asks the driver for its maxima, and if the rx or
\* the tx queue count asked for exceeds the smaller of
\* CONFIG_LIBUKNETDEV_MAXNBQUEUES and the driver's maximum it returns
\* -EINVAL, does not call the driver's configure and changes nothing;
\* uk_netdev_start, uk_netdev_rxq_configure and uk_netdev_txq_configure on
\* a device that is not CONFIGURED return -EINVAL, call nothing and change
\* nothing.
C28_Rejects ==
    [][LET c == nd_call' IN
       /\ c.op = "configure"
          => LET st == netdevs[c.dev].state IN
             /\ st # "UNCONFIGURED"
                => c.ret = -EINVAL /\ c.did = <<>> /\ UNCHANGED netdevs
             /\ st = "UNCONFIGURED"
                => /\ c.did[1][1] = "info_get"
                   /\ (\/ c.a[1] > MIN(CONFIG_LIBUKNETDEV_MAXNBQUEUES,
                                       c.did[1][2][1])
                       \/ c.a[2] > MIN(CONFIG_LIBUKNETDEV_MAXNBQUEUES,
                                       c.did[1][2][2]))
                      => /\ c.ret = -EINVAL
                         /\ "configure" \notin DidOps(c)
                         /\ UNCHANGED netdevs
       /\ (/\ c.op \in {"start", "rxq_configure", "txq_configure"}
           /\ netdevs[c.dev].state # "CONFIGURED")
          => c.ret = -EINVAL /\ c.did = <<>> /\ UNCHANGED netdevs]_vars
\* One rx queue is asked for, within CONFIG_LIBUKNETDEV_MAXNBQUEUES, of a
\* driver that has none: the call is rejected.
C28_Witness ==
    /\ nd_call.op = "configure"
    /\ nd_call.ret = -EINVAL
    /\ nd_call.a[1] = 1
    /\ nd_call.a[1] <= CONFIG_LIBUKNETDEV_MAXNBQUEUES
    /\ DidOps(nd_call) = {"info_get"}
    /\ netdevs[1].state = "UNCONFIGURED"

\* C29 as claimed: a queue slot that holds a queue keeps it; a
\* uk_netdev_rxq_configure or uk_netdev_txq_configure that returns 0 leaves
\* a queue in the slot, and a later call for the same id returns -EBUSY,
\* calls no driver callback and creates no event handler; when the driver's
\* callback fails the call returns, the slot holds the error value, the
\* event handler has no dispatcher thread and no name left, and a call for
\* a slot that holds an error value or NULL is not rejected with -EBUSY.
C29_ConfiguredOnce ==
    [][LET c == nd_call' IN
       /\ \A d \in DOMAIN netdevs, q \in QueueIds :
            /\ ~PTRISERR(netdevs[d]._rx_queue[q])
               => netdevs'[d]._rx_queue[q] = netdevs[d]._rx_queue[q]
            /\ ~PTRISERR(netdevs[d]._tx_queue[q])
               => netdevs'[d]._tx_queue[q] = netdevs[d]._tx_queue[q]
       /\ c.op = "rxq_configure"
          => LET slot == netdevs[c.dev]._rx_queue[c.a]
                 slot2 == netdevs'[c.dev]._rx_queue[c.a]
                 h2 == netdevs'[c.dev].rxq_handler[c.a] IN
             /\ ~PTRISERR(slot)
                => c.ret = -EBUSY /\ c.did = <<>> /\ UNCHANGED netdevs
             /\ PTRISERR(slot) => c.ret # -EBUSY
             /\ (pc' = "netdev" /\ c.ret = 0) => ~PTRISERR(slot2)
             /\ \A k \in DOMAIN c.did :
                  (c.did[k][1] = "rxq_configure" /\ PTRISERR(c.did[k][2]))
                  => /\ pc' = "netdev"
                     /\ slot2 = c.did[k][2]
                     /\ ~h2.dispatcher /\ ~h2.dispatcher_name
       /\ c.op = "txq_configure"
          => LET slot == netdevs[c.dev]._tx_queue[c.a]
                 slot2 == netdevs'[c.dev]._tx_queue[c.a] IN
             /\ ~PTRISERR(slot)
                => c.ret = -EBUSY /\ c.did = <<>> /\ UNCHANGED netdevs
             /\ PTRISERR(slot) => c.ret # -EBUSY
             /\ c.ret = 0 => ~PTRISERR(slot2)
             /\ \A k \in DOMAIN c.did :
                  (c.did[k][1] = "txq_configure" /\ PTRISERR(c.did[k][2]))
                  => slot2 = c.did[k][2]]_vars

====
